---- MODULE Spec2Model ----
(***************************************************************************)
(* Model of terrier's versioned SqlTable (storage/sql_table.{h,cpp}): the  *)
(* registry of layout versions, the header translator, the default filler  *)
(* and the access operations Select / Update / Insert / Delete / Scan.     *)
(***************************************************************************)
EXTENDS Integers, Sequences, FiniteSets, TLC

(***************************************************************************)
(* Program constants                                                       *)
(***************************************************************************)
MAX_NUM_VERSIONS == 4
NUM_RESERVED_COLUMNS == 1
VERSION_POINTER_COLUMN_ID == 0
IGNORE_COLUMN_ID == 65535
VARLEN_COLUMN == 32784
Uint8Mod == 256
INVALID_COLUMN_OID == 0

(***************************************************************************)
(* Bounds of the model                                                     *)
(***************************************************************************)
MaxCols == 3        \* columns in one schema
MaxWrites == 1      \* calls of Update and Delete
MaxBatch == 2       \* largest capacity of a scan batch buffer
MaxTuples == 2      \* tuples in the table when it is scanned
MaxCmds == 3        \* commands of one ALTER TABLE statement

(***************************************************************************)
(* Values.  NULL is the null marker of a projection slot or a constant;    *)
(* NoDefault is a column without stored expression (nullptr); NonConstant  *)
(* is a stored expression that is not a constant (a function call, a       *)
(* column reference).                                                      *)
(***************************************************************************)
NULL == 0 - 1
NoDefault == 0 - 2
DefaultInt == 7
NonConstant == 0 - 3
Txns == {"txn"}

Min(a, b) == IF a <= b THEN a ELSE b

RECURSIVE Pow256(_)
Pow256(n) == IF n = 0 THEN 1 ELSE 256 * Pow256(n - 1)

(* the low-order n bytes of a value; the values of the model fit 3 bytes *)
LowBytes(v, n) == IF n >= 3 THEN v ELSE v % Pow256(n)

Range(s) == {s[i] : i \in DOMAIN s}

(* the ascending enumeration of a finite set of integers *)
RECURSIVE SortedSeq(_)
SortedSeq(S) ==
  IF S = {} THEN <<>>
  ELSE LET m == CHOOSE x \in S : \A y \in S : x <= y
       IN  <<m>> \o SortedSeq(S \ {m})

Repeat(x, n) == [i \in 1 .. n |-> x]

(***************************************************************************)
(* catalog::Schema : a sequence of columns [oid, size, def]                *)
(***************************************************************************)
Column(oid, size, def) == [oid |-> oid, size |-> size, def |-> def]

SchemaOids(schema) == {schema[i].oid : i \in DOMAIN schema}

GetColumn(schema, oid) ==
  schema[CHOOSE i \in DOMAIN schema : schema[i].oid = oid]

(* the attribute size in bytes: a varlen attribute is a 16-byte VarlenEntry *)
AttrBytes(size) == size % 32768

(***************************************************************************)
(* Block layout builder (the helpers of storage_util / BlockLayout that    *)
(* CreateTable calls)                                                      *)
(***************************************************************************)
CountSize(sizes, sz) == Cardinality({i \in DOMAIN sizes : sizes[i] = sz})

(* offsets[k] is the first column id of size class k, after the reserved   *)
(* columns; attr_sizes starts with the reserved columns                     *)
ComputeBaseAttributeOffsets(attr_sizes, num_reserved) ==
  LET rest == SubSeq(attr_sizes, num_reserved + 1, Len(attr_sizes))
      o1 == num_reserved
      o2 == o1 + CountSize(rest, VARLEN_COLUMN)
      o3 == o2 + CountSize(rest, 8)
      o4 == o3 + CountSize(rest, 4)
      o5 == o4 + CountSize(rest, 2)
  IN  <<o1, o2, o3, o4, o5>>

(* BlockLayout(attr_sizes): the reserved columns, then the attributes in   *)
(* descending size, varlens first; element id+1 is the size of column id   *)
BlockLayout(attr_sizes) ==
  LET rest == SubSeq(attr_sizes, NUM_RESERVED_COLUMNS + 1, Len(attr_sizes))
  IN  SubSeq(attr_sizes, 1, NUM_RESERVED_COLUMNS)
        \o Repeat(VARLEN_COLUMN, CountSize(rest, VARLEN_COLUMN))
        \o Repeat(8, CountSize(rest, 8))
        \o Repeat(4, CountSize(rest, 4))
        \o Repeat(2, CountSize(rest, 2))
        \o Repeat(1, CountSize(rest, 1))

AttrSize(layout, col_id) == AttrBytes(layout[col_id + 1])

(***************************************************************************)
(* DataTableVersion and DataTable                                          *)
(***************************************************************************)
EmptyMap == [x \in {} |-> 0]

MapPut(m, k, v) == [x \in (DOMAIN m) \cup {k} |-> IF x = k THEN v ELSE m[x]]

(* a data table: its layout version tag and its slots in block order *)
NullDataTable == [allocated |-> FALSE, layout_version_ |-> 0, slots |-> <<>>]

(* a data table that is not told its layout version *)
NewDataTable_Unversioned(version) == [allocated |-> TRUE, layout_version_ |-> 0, slots |-> <<>>]

(* line 332: new DataTable(block_store_, layout_, version) *)
NewDataTable(version) == [allocated |-> TRUE, layout_version_ |-> version, slots |-> <<>>]

DataTableVersion ==
  [data_table_ |-> NullDataTable,
   layout_ |-> <<>>,
   column_oid_to_id_map_ |-> EmptyMap,
   column_id_to_oid_map_ |-> EmptyMap,
   schema_ |-> <<>>,
   default_value_map_ |-> EmptyMap]

VARIABLES
  tables_,        \* std::vector<DataTableVersion> of fixed size MAX_NUM_VERSIONS
  num_versions_,  \* std::atomic<uint8_t>
  must_abort,     \* TransactionContext::must_abort_ of every transaction
  last,           \* the observation of the most recent call
  hist,           \* history of the tuples: what was inserted, and what happened since
  writes,         \* the number of Update and Delete calls so far
  scan,           \* a scan in progress: iterator, batch buffer, rows delivered
  creating,       \* the frame of a CreateTable that is under way in a writer thread
  alter,          \* the transactions that alter the table, and the writer the catalog let pass
  racing          \* the threads that run Update on one slot at the same time, and their frames

vars == <<tables_, num_versions_, must_abort, last, hist, writes, scan, creating, alter, racing>>

(* what the operations of one caller leave alone *)
schema_writers == <<creating, alter, racing>>

TupleSlot(tbl, idx) == <<tbl, idx>>
NoSlot == <<0 - 1, 0>>

(* slot.GetBlock()->data_table_->layout_version_ *)
TupleVersionOf(tbls, slot) == tbls[slot[1]].data_table_.layout_version_

Registered(tbls, v) == v \in 0 .. MAX_NUM_VERSIONS - 1 /\ tbls[v].data_table_.allocated

(***************************************************************************)
(* SqlTable::CreateTable                                                   *)
(***************************************************************************)
(* a switch that sends the 4-byte columns to the counter of the 2-byte     *)
(* columns and the 2-byte columns to that of the 4-byte columns            *)
SizeClassOf_Swapped(size) ==
  CASE size = VARLEN_COLUMN -> 1
    [] size = 8 -> 2
    [] size = 4 -> 4
    [] size = 2 -> 3
    [] size = 1 -> 5
    [] OTHER -> 0

(* lines 299-326: the case of the switch, and with it the counter          *)
(* offsets[k - 1], that a column of this size takes                        *)
SizeClassOf(size) ==
  CASE size = VARLEN_COLUMN -> 1
    [] size = 8 -> 2
    [] size = 4 -> 3
    [] size = 2 -> 4
    [] size = 1 -> 5
    [] OTHER -> 0

(* a mapping that enters the incremented offset in one of the two maps *)
MapOneColumn_PreIncrement(entry, column, id) ==
  LET e1 == IF column.def # NoDefault
            THEN [entry EXCEPT !.default_value_map_ = MapPut(@, column.oid, column.def)]
            ELSE entry
  IN  [e1 EXCEPT !.column_id_to_oid_map_ = MapPut(@, id, column.oid),
                 !.column_oid_to_id_map_ = MapPut(@, column.oid, id + 1)]

(* the switch over column.AttrSize() for one column: offsets[k]++ *)
MapOneColumn(entry, column, id) ==
  LET e1 == IF column.def # NoDefault
            THEN [entry EXCEPT !.default_value_map_ = MapPut(@, column.oid, column.def)]
            ELSE entry
  IN  [e1 EXCEPT !.column_id_to_oid_map_ = MapPut(@, id, column.oid),
                 !.column_oid_to_id_map_ = MapPut(@, column.oid, id)]

(* the loop over schema->GetColumns(); an unknown size throws *)
RECURSIVE MapColumns(_, _, _, _)
MapColumns(schema, i, offsets, entry) ==
  IF i > Len(schema) THEN [entry |-> entry, threw |-> FALSE]
  ELSE LET k == SizeClassOf(schema[i].size)
       IN  IF k = 0 THEN [entry |-> entry, threw |-> TRUE]
           ELSE MapColumns(schema, i + 1, [offsets EXCEPT ![k] = @ + 1],
                           MapOneColumn(entry, schema[i], offsets[k]))

(* the check of the incremented counter against the cap *)
AtCapacity(curr_num) == curr_num >= MAX_NUM_VERSIONS

(* a schema change that empties the data tables of the other versions *)
InstallVersion_Rewrite(tbls, curr_num, entry) ==
  [v \in DOMAIN tbls |-> IF v = curr_num - 1 THEN entry
                         ELSE [tbls[v] EXCEPT !.data_table_.slots = <<>>]]

(* lines 301-332: CreateTable writes the entry tables_[curr_num - 1] only *)
InstallVersion(tbls, curr_num, entry) == [tbls EXCEPT ![curr_num - 1] = entry]

CreateTable(tbls, num, schema, version) ==
  LET curr_num == (num + 1) % Uint8Mod
  IN  IF AtCapacity(curr_num)
      THEN [tables |-> tbls, num |-> MAX_NUM_VERSIONS, result |-> FALSE, threw |-> FALSE]
      ELSE LET attr_sizes == Repeat(8, NUM_RESERVED_COLUMNS)
                               \o [i \in 1 .. Len(schema) |-> schema[i].size]
               offsets == ComputeBaseAttributeOffsets(attr_sizes, NUM_RESERVED_COLUMNS)
               m == MapColumns(schema, 1, offsets, tbls[curr_num - 1])
           IN  IF m.threw
               THEN [tables |-> InstallVersion(tbls, curr_num, m.entry),
                     num |-> curr_num, result |-> FALSE, threw |-> TRUE]
               ELSE [tables |-> InstallVersion(tbls, curr_num,
                                   [m.entry EXCEPT !.layout_ = BlockLayout(attr_sizes),
                                                   !.schema_ = schema,
                                                   !.data_table_ = NewDataTable(version)]),
                     num |-> curr_num, result |-> TRUE, threw |-> FALSE]

(***************************************************************************)
(* The schemas handed to the table: the initial one, and the alterations   *)
(* the callers build from the latest schema (AddColumn, DropColumn,        *)
(* ChangeColType of the tests)                                             *)
(***************************************************************************)
InitialSchema == <<Column(1, 1, NoDefault), Column(2, 4, NoDefault)>>

AddSizes == {1}
AddDefaults == {NoDefault, NULL, DefaultInt}

(* the new column takes the largest oid of the schema plus one *)
AddColumn(schema, size, def) ==
  LET next_oid == CHOOSE o \in SchemaOids(schema) : \A p \in SchemaOids(schema) : p <= o
  IN  Append(schema, Column(next_oid + 1, size, def))

RECURSIVE DropColumn(_, _)
DropColumn(schema, oid) ==
  IF schema = <<>> THEN <<>>
  ELSE IF Head(schema).oid = oid THEN Tail(schema)
  ELSE <<Head(schema)>> \o DropColumn(Tail(schema), oid)

ChangeColType(schema, oid, size) ==
  [i \in DOMAIN schema |-> IF schema[i].oid = oid THEN [schema[i] EXCEPT !.size = size]
                           ELSE schema[i]]

AlteredSchemas(tbls, schema) ==
  {AddColumn(schema, sz, d) :
       sz \in (IF Len(schema) < MaxCols THEN AddSizes ELSE {}), d \in AddDefaults}
  \cup {DropColumn(schema, o) : o \in (IF Len(schema) > 1 THEN SchemaOids(schema) ELSE {})}
  \cup {ChangeColType(schema, o, 2) : o \in {p \in SchemaOids(schema) : GetColumn(schema, p).size = 1}}

(***************************************************************************)
(* Observations and history                                                *)
(***************************************************************************)
NoRow == [header |-> <<>>, vals |-> <<>>]

NoCall ==
  [op |-> "none", txn |-> "txn", slot |-> NoSlot, version |-> 0, result |-> FALSE,
   status |-> "ok", header |-> <<>>, pr |-> NoRow, out_slot |-> NoSlot,
   want_slot |-> FALSE, conflict |-> FALSE, schema |-> <<>>, tuple_version |-> 0,
   align |-> [cached_orig_header |-> <<>>, header |-> <<>>, missing_col |-> <<>>,
              size_map |-> EmptyMap],
   steps |-> <<>>, redo_buffer |-> <<>>, col_oids |-> <<>>, projection_map |-> EmptyMap]

(* a call the operation made on the data table of a version *)
Step(op, v) == [op |-> op, version |-> v]

(* the record of the call in txn->redo_buffer_: the callers stage it with  *)
(* StageWrite or StageDelete before the call, the operations assert that   *)
(* it is the last record of the buffer and stage none themselves           *)
StageWrite(slot) == <<[type |-> "RedoRecord", slot |-> slot]>>

StageDelete(slot) == <<[type |-> "DeleteRecord", slot |-> slot]>>

(* no scan yet: the iterator, the batch buffer (ProjectedColumns) and the   *)
(* slots the caller has been handed so far                                  *)
NoScan == [active |-> FALSE, version |-> 0, pos |-> NoSlot, header |-> <<>>,
           max_tuples |-> 0, num_tuples |-> 0, rows |-> <<>>, delivered |-> <<>>,
           status |-> "ok"]

(* no CreateTable under way: the locals of the call and the line it is at   *)
NoCreate == [pc |-> "idle", schema |-> <<>>, version |-> 0, curr_num |-> 0, i |-> 0,
             attr_sizes |-> <<>>, offsets |-> <<>>]

(* the transactions that alter the table at the same time: each one began   *)
(* on the same schema; owner is the one whose write of the catalog row went *)
(* through                                                                  *)
Alterers == {"a1", "a2", "a3"}
NoAlter == [pc |-> "idle", owner |-> "none", start |-> 0, original |-> <<>>,
            done |-> {}, succeeded |-> {}, cols |-> [a \in Alterers |-> <<>>],
            columns |-> <<>>, change_map |-> EmptyMap, cmds |-> <<>>]

(* the threads that call Update on one slot at the same time, each for a   *)
(* transaction of its own.  The frame of a thread holds the arguments of   *)
(* its call, the position it has reached in Update, the locals result and  *)
(* pr, the caller's updated_slot and the must-abort flag of its transaction *)
Racers == {"t1", "t2"}
NoFrame ==
  [pc |-> "none", version |-> 0, want_slot |-> FALSE, pr |-> NoRow, result |-> FALSE,
   out_slot |-> NoSlot, must_abort |-> FALSE, steps |-> <<>>]
NoRace ==
  [pc |-> "idle", slot |-> NoSlot, visible |-> FALSE, before |-> {},
   frame |-> [t \in Racers |-> NoFrame]]

(***************************************************************************)
(* SqlTable::SqlTable : tables_(MAX_NUM_VERSIONS, DataTableVersion()),     *)
(* then CreateTable(schema, 0)                                             *)
(***************************************************************************)
SqlTable(schema) ==
  CreateTable([v \in 0 .. MAX_NUM_VERSIONS - 1 |-> DataTableVersion], 0, schema, 0)

Init ==
  /\ tables_ = SqlTable(InitialSchema).tables
  /\ num_versions_ = SqlTable(InitialSchema).num
  /\ must_abort = [t \in Txns |-> FALSE]
  /\ last = NoCall
  /\ hist = EmptyMap
  /\ writes = 0
  /\ scan = NoScan
  /\ creating = NoCreate
  /\ alter = NoAlter
  /\ racing = NoRace

(***************************************************************************)
(* SqlTable::UpdateSchema(txn, schema, layout_version).  The callers pass  *)
(* the next version number (layout_version + 1 of the latest).             *)
(***************************************************************************)
LatestSchema(tbls, num) ==
  LET regs == {v \in DOMAIN tbls : tbls[v].data_table_.allocated}
  IN  tbls[CHOOSE v \in regs : \A w \in regs : w <= v].schema_

UpdateSchema(txn, schema, layout_version) ==
  LET r == CreateTable(tables_, num_versions_, schema, layout_version)
  IN  /\ layout_version >= num_versions_
      /\ tables_' = r.tables
      /\ num_versions_' = r.num
      /\ last' = [NoCall EXCEPT !.op = "UpdateSchema", !.txn = txn,
                                !.version = layout_version, !.result = r.result,
                                !.status = IF r.threw THEN "throw" ELSE "ok"]
      /\ UNCHANGED <<must_abort, hist, scan, writes>>

(***************************************************************************)
(* ProjectedRow: a header of column ids and one value per position (NULL   *)
(* when the null bit is set).  ProjectedRowInitializer::Create sorts the   *)
(* column ids; InitializeRow marks every position null.                    *)
(***************************************************************************)
ColIdsForOids(tbls, col_oids, layout_version) ==
  {tbls[layout_version].column_oid_to_id_map_[o] : o \in col_oids}

(***************************************************************************)
(* SqlTable::ProjectionMapForOids                                          *)
(***************************************************************************)
(* lines 362-367: inverse_map[col_id] = col_oid for the oids from          *)
(* position i on, in the order of the list                                 *)
RECURSIVE InverseMap(_, _, _, _)
InverseMap(entry, col_oids, i, inverse_map) ==
  IF i > Len(col_oids) THEN inverse_map
  ELSE InverseMap(entry, col_oids, i + 1,
                  MapPut(inverse_map, entry.column_oid_to_id_map_[col_oids[i]], col_oids[i]))

(* a projection map that numbers the oids in the order of the list *)
ProjectionMapForOids_ListOrder(tbls, col_oids, layout_version) ==
  [o \in Range(col_oids) |-> (CHOOSE i \in DOMAIN col_oids : col_oids[i] = o) - 1]

(* lines 369-373: projection_map[iter.second] = i++ over the std::map in   *)
(* the ascending order of its keys, the column ids                         *)
ProjectionMapForOids(tbls, col_oids, layout_version) ==
  LET inverse_map == InverseMap(tbls[layout_version], col_oids, 1, EmptyMap)
      ids == SortedSeq(DOMAIN inverse_map)
  IN  [o \in {inverse_map[id] : id \in DOMAIN inverse_map} |->
         (CHOOSE i \in DOMAIN ids : inverse_map[ids[i]] = o) - 1]

InitializerForProjectedRow(tbls, col_oids, layout_version) ==
  LET header == SortedSeq(ColIdsForOids(tbls, col_oids, layout_version))
  IN  [header |-> header, vals |-> [i \in DOMAIN header |-> NULL]]

(* the position of a column id in a header, 0 when absent *)
PositionOf(header, id) ==
  IF \E i \in DOMAIN header : header[i] = id
  THEN CHOOSE i \in DOMAIN header : header[i] = id
  ELSE 0

(***************************************************************************)
(* DataTable: the block store under one layout version.  A slot holds one  *)
(* value per physical column and a deleted mark.                           *)
(***************************************************************************)
LayoutColIds(layout) == NUM_RESERVED_COLUMNS .. Len(layout) - 1

Visible(dt, idx) == idx \in 1 .. Len(dt.slots) /\ ~dt.slots[idx].deleted

(* the low-order bytes of a stored attribute, the rest of the slot zeroed *)
CopyAttr(v, stored_size, pr_size) ==
  IF v = NULL THEN NULL ELSE LowBytes(v, Min(stored_size, pr_size))

DataTable_Select(dt, layout, idx, pr, size_map) ==
  IF ~Visible(dt, idx) THEN [result |-> FALSE, pr |-> pr]
  ELSE [result |-> TRUE,
        pr |-> [pr EXCEPT !.vals =
                 [i \in DOMAIN pr.header |->
                    LET id == pr.header[i]
                    IN  IF id = IGNORE_COLUMN_ID THEN NULL
                        ELSE IF id \in DOMAIN size_map
                             THEN CopyAttr(dt.slots[idx].vals[id], AttrSize(layout, id), size_map[id])
                             ELSE dt.slots[idx].vals[id]]]]

DataTable_Insert(dt, layout, pr) ==
  LET row == [id \in LayoutColIds(layout) |->
                IF PositionOf(pr.header, id) = 0 THEN NULL
                ELSE CopyAttr(pr.vals[PositionOf(pr.header, id)], AttrSize(layout, id), AttrSize(layout, id))]
  IN  [dt EXCEPT !.slots = Append(@, [vals |-> row, deleted |-> FALSE])]

(* a write fails on a write-write conflict or on a tuple that is not visible *)
DataTable_Update(dt, layout, idx, delta, conflict) ==
  IF conflict \/ ~Visible(dt, idx) THEN [result |-> FALSE, dt |-> dt]
  ELSE [result |-> TRUE,
        dt |-> [dt EXCEPT !.slots[idx].vals =
                 [id \in DOMAIN @ |->
                    IF PositionOf(delta.header, id) = 0 THEN @[id]
                    ELSE CopyAttr(delta.vals[PositionOf(delta.header, id)],
                                  AttrSize(layout, id), AttrSize(layout, id))]]]

DataTable_Delete(dt, idx, conflict) ==
  IF conflict \/ ~Visible(dt, idx) THEN [result |-> FALSE, dt |-> dt]
  ELSE [result |-> TRUE, dt |-> [dt EXCEPT !.slots[idx].deleted = TRUE]]

(***************************************************************************)
(* SqlTable::AlignHeaderToVersion                                          *)
(***************************************************************************)
(* a translation that keeps the column id of the desired version *)
AlignColumn_ById(col_id, tuple_version, desired_version) ==
  IF col_id \in DOMAIN tuple_version.column_id_to_oid_map_ THEN col_id ELSE IGNORE_COLUMN_ID

(* the translation of position i (1-based here, i - 1 in the code) *)
AlignColumn(col_id, tuple_version, desired_version) ==
  LET col_oid == desired_version.column_id_to_oid_map_[col_id]
  IN  IF col_oid \in DOMAIN tuple_version.column_oid_to_id_map_
      THEN tuple_version.column_oid_to_id_map_[col_oid]
      ELSE IGNORE_COLUMN_ID

(* a size map that takes only the columns stored wider than they are read *)
SizeMapInsert_Larger(size_map, tuple_col_id, tuple_attr_size, pr_attr_size) ==
  IF tuple_attr_size > pr_attr_size /\ tuple_col_id \notin DOMAIN size_map
  THEN MapPut(size_map, tuple_col_id, pr_attr_size)
  ELSE size_map

(* lines 252-256: size_map->insert({tuple_col_id, pr_attr_size}) when the   *)
(* two attribute sizes differ; insert keeps an entry that is there already  *)
SizeMapInsert(size_map, tuple_col_id, tuple_attr_size, pr_attr_size) ==
  IF tuple_attr_size # pr_attr_size /\ tuple_col_id \notin DOMAIN size_map
  THEN MapPut(size_map, tuple_col_id, pr_attr_size)
  ELSE size_map

(* the loop over the positions of the header, from position i on *)
RECURSIVE AlignFrom(_, _, _, _)
AlignFrom(i, a, tuple_version, desired_version) ==
  IF i > Len(a.header) THEN a
  ELSE LET col_id == a.header[i]
           col_oid == desired_version.column_id_to_oid_map_[col_id]
           tuple_col_id == AlignColumn(col_id, tuple_version, desired_version)
       IN  IF col_oid \in DOMAIN tuple_version.column_oid_to_id_map_
           THEN AlignFrom(i + 1,
                          [a EXCEPT !.header[i] = tuple_col_id,
                                    !.size_map =
                                       SizeMapInsert(@, tuple_version.column_oid_to_id_map_[col_oid],
                                          AttrSize(tuple_version.layout_,
                                                   tuple_version.column_oid_to_id_map_[col_oid]),
                                          AttrSize(desired_version.layout_, col_id))],
                          tuple_version, desired_version)
           ELSE AlignFrom(i + 1,
                          [a EXCEPT !.header[i] = tuple_col_id,
                                    !.missing_col = Append(@, <<i - 1, col_oid>>)],
                          tuple_version, desired_version)

(* nothing translated yet: the header is copied to the cache first *)
NoAlign(header) ==
  [cached_orig_header |-> header, header |-> header, missing_col |-> <<>>, size_map |-> EmptyMap]

AlignHeaderToVersion(header, tuple_version, desired_version) ==
  AlignFrom(1, NoAlign(header), tuple_version, desired_version)

(* a restore that writes the cached column ids back in the opposite order *)
RestoreHeader_Reversed(header, cached_orig_header) ==
  [i \in DOMAIN header |-> cached_orig_header[Len(header) + 1 - i]]

(* std::memcpy(ColumnIds(), orig_header, sizeof(col_id_t) * NumColumns()):  *)
(* every position of the header takes the cached column id                  *)
RestoreHeader(header, cached_orig_header) ==
  [i \in DOMAIN header |-> cached_orig_header[i]]

(***************************************************************************)
(* SqlTable::FillMissingColumns                                            *)
(***************************************************************************)
(* TransientValuePeeker::PeekValue: false for the null constant *)
PeekValue(default_const) == default_const # NULL

(* GetExpressionType() == parser::ExpressionType::VALUE_CONSTANT *)
IsConstant(expr) == expr # NonConstant

(* the TERRIER_ASSERT at the head of the loop body: .at(oid) on the default *)
(* map of the desired version, and the type of the expression found         *)
FillAssertHolds(tbls, missing_cols, layout_version) ==
  \A k \in DOMAIN missing_cols :
     /\ missing_cols[k][2] \in DOMAIN tbls[layout_version].default_value_map_
     /\ IsConstant(tbls[layout_version].default_value_map_[missing_cols[k][2]])

(* lines 202-204: the expression is cast to ConstantValueExpression and its *)
(* value taken; for an expression of another class the cast is not checked  *)
(* and the value is whatever the object holds at that place                 *)
GetValue(expr, junk) == IF IsConstant(expr) THEN expr ELSE junk

(* the versions searched for a default of col_oid, in ascending order *)
DefaultSearch(tuple_version, layout_version) ==
  tuple_version + 1 .. layout_version

(* the version whose default is copied: the first one of the search that   *)
(* has the column in its default map and whose constant peeks; 0 - 1 if none *)
DefaultVersion(tbls, col_oid, tuple_version, layout_version) ==
  LET hits == {w \in DefaultSearch(tuple_version, layout_version) :
                 /\ w \in DOMAIN tbls
                 /\ col_oid \in DOMAIN tbls[w].default_value_map_
                 /\ PeekValue(tbls[w].default_value_map_[col_oid])}
  IN  IF hits = {} THEN 0 - 1 ELSE CHOOSE w \in hits : \A x \in hits : w <= x

(* CopyWithNullCheck of value_size bytes into a slot of slot_size bytes:   *)
(* the bytes of the slot beyond value_size keep what the buffer held (junk) *)
CopyDefault(default_const, value_size, slot_size, junk) ==
  IF value_size >= slot_size THEN LowBytes(default_const, slot_size)
  ELSE LowBytes(default_const, value_size) + junk * Pow256(value_size)

FillMissingColumns(tbls, out_buffer, missing_cols, tuple_version, layout_version, junk) ==
  [out_buffer EXCEPT !.vals =
     [i \in DOMAIN @ |->
        IF \E k \in DOMAIN missing_cols : missing_cols[k][1] = i - 1
        THEN LET col_oid == missing_cols[CHOOSE k \in DOMAIN missing_cols : missing_cols[k][1] = i - 1][2]
                 w == DefaultVersion(tbls, col_oid, tuple_version, layout_version)
             IN  IF w < 0 THEN @[i]
                 ELSE CopyDefault(GetValue(tbls[w].default_value_map_[col_oid], junk),
                                  AttrBytes(GetColumn(tbls[w].schema_, col_oid).size),
                                  AttrSize(tbls[layout_version].layout_, out_buffer.header[i]),
                                  junk)
        ELSE @[i]]]

(***************************************************************************)
(* SqlTable::Select                                                        *)
(***************************************************************************)
(* a read that goes to the data table of the first version *)
SelectSameVersion_First(tbls, slot, out_buffer, tuple_version) ==
  DataTable_Select(tbls[0].data_table_, tbls[0].layout_, slot[2], out_buffer, EmptyMap)

(* lines 30-33: the tuple is read from the data table of its own version *)
SelectSameVersion(tbls, slot, out_buffer, tuple_version) ==
  DataTable_Select(tbls[tuple_version].data_table_, tbls[tuple_version].layout_,
                   slot[2], out_buffer, EmptyMap)

(* a read of the older version that copies every attribute at its stored size *)
SelectOlderVersion_NoSizeMap(tuple_v, slot, out_buffer, size_map) ==
  DataTable_Select(tuple_v.data_table_, tuple_v.layout_, slot[2], out_buffer, EmptyMap)

(* line 42: the tuple is read from the data table of its own version with  *)
(* the translated header and the size map of the translation               *)
SelectOlderVersion(tuple_v, slot, out_buffer, size_map) ==
  DataTable_Select(tuple_v.data_table_, tuple_v.layout_, slot[2], out_buffer, size_map)

SelectRow(tbls, slot, out_buffer, layout_version, junk, asserts) ==
  LET tuple_version == TupleVersionOf(tbls, slot)
  IN  IF asserts /\ ~(tuple_version <= layout_version)
      THEN [result |-> FALSE, pr |-> out_buffer, status |-> "assert"]
      ELSE IF tuple_version = layout_version
      THEN LET r == SelectSameVersion(tbls, slot, out_buffer, tuple_version)
           IN  [result |-> r.result, pr |-> r.pr, status |-> "ok"]
      ELSE LET desired_v == tbls[layout_version]
               tuple_v == tbls[tuple_version]
               a == AlignHeaderToVersion(out_buffer.header, tuple_v, desired_v)
               r == SelectOlderVersion(tuple_v, slot, [out_buffer EXCEPT !.header = a.header],
                                       a.size_map)
               restored == [r.pr EXCEPT !.header = RestoreHeader(@, a.cached_orig_header)]
           IN  IF a.missing_col = <<>>
               THEN [result |-> r.result, pr |-> restored, status |-> "ok"]
               ELSE IF asserts /\ ~FillAssertHolds(tbls, a.missing_col, layout_version)
               THEN [result |-> r.result, pr |-> restored, status |-> "assert"]
               ELSE [result |-> r.result,
                     pr |-> FillMissingColumns(tbls, restored, a.missing_col, tuple_version,
                                               layout_version, junk),
                     status |-> "ok"]

(* the slots allocated so far *)
AllSlots(tbls) ==
  UNION {{TupleSlot(v, i) : i \in 1 .. Len(tbls[v].data_table_.slots)} : v \in DOMAIN tbls}

(* the tuples the callers inserted, migrated copies not counted *)
NumInserted == Cardinality({s \in DOMAIN hist : hist[s].from = NoSlot})

(* the projections the callers ask for: every column, or a single one *)
Projections(tbls, layout_version) ==
  LET oids == DOMAIN tbls[layout_version].column_oid_to_id_map_
  IN  {oids} \cup {{o} : o \in oids}

Select(txn, slot, col_oids, layout_version, junk, asserts) ==
  LET out_buffer == InitializerForProjectedRow(tables_, col_oids, layout_version)
      r == SelectRow(tables_, slot, out_buffer, layout_version, junk, asserts)
  IN  /\ last' = [NoCall EXCEPT !.op = "Select", !.txn = txn, !.slot = slot,
                                !.version = layout_version, !.result = r.result,
                                !.status = r.status, !.header = out_buffer.header,
                                !.pr = r.pr]
      /\ UNCHANGED <<tables_, num_versions_, must_abort, hist, writes, scan>>

(***************************************************************************)
(* SqlTable::Insert                                                        *)
(***************************************************************************)
(* the value a caller writes into a column, by the size of the column *)
InsVal(oid, size) == IF AttrBytes(size) = 1 THEN 10 + oid ELSE 300 + oid
UpdVal(oid, size) == IF AttrBytes(size) = 1 THEN 20 + oid ELSE 600 + oid

(* the rows the callers insert: every column of the version, some null *)
NullMasks(oids) == {{}} \cup {{o} : o \in oids}

RowOf(tbls, layout_version, col_oids, nulls, is_update) ==
  LET pr == InitializerForProjectedRow(tbls, col_oids, layout_version)
  IN  [pr EXCEPT !.vals =
         [i \in DOMAIN pr.header |->
            LET oid == tbls[layout_version].column_id_to_oid_map_[pr.header[i]]
            IN  IF oid \in nulls THEN NULL
                ELSE IF is_update
                     THEN UpdVal(oid, GetColumn(tbls[layout_version].schema_, oid).size)
                     ELSE InsVal(oid, GetColumn(tbls[layout_version].schema_, oid).size)]]

(* the logical content of a projected row: oid -> value *)
ByOid(tbls, layout_version, pr) ==
  [oid \in {tbls[layout_version].column_id_to_oid_map_[pr.header[i]] : i \in DOMAIN pr.header} |->
     pr.vals[PositionOf(pr.header, tbls[layout_version].column_oid_to_id_map_[oid])]]

(* an insert that always goes to the data table of the first version *)
InsertInto_Oldest(tbls, redo, layout_version) ==
  [tbls EXCEPT ![0].data_table_ = DataTable_Insert(@, tbls[0].layout_, redo)]

(* line 137: tables_.at(layout_version).data_table_->Insert(txn, *(redo->Delta())) *)
InsertInto(tbls, redo, layout_version) ==
  [tbls EXCEPT ![layout_version].data_table_ =
     DataTable_Insert(@, tbls[layout_version].layout_, redo)]

Insert(txn, nulls, layout_version) ==
  LET oids == DOMAIN tables_[layout_version].column_oid_to_id_map_
      redo == RowOf(tables_, layout_version, oids, nulls, FALSE)
      tbls == InsertInto(tables_, redo, layout_version)
      slot == TupleSlot(layout_version, Len(tbls[layout_version].data_table_.slots))
  IN  /\ tables_' = tbls
      /\ hist' = MapPut(hist, slot, [row |-> ByOid(tables_, layout_version, redo),
                                     version |-> layout_version, touched |-> FALSE,
                                     from |-> NoSlot])
      /\ last' = [NoCall EXCEPT !.op = "Insert", !.txn = txn, !.slot = slot,
                                !.version = layout_version, !.result = TRUE,
                                !.pr = redo, !.out_slot = slot,
                                !.steps = <<Step("Insert", layout_version)>>,
                                !.redo_buffer = StageWrite(slot)]
      /\ UNCHANGED <<num_versions_, must_abort, writes, scan>>

(***************************************************************************)
(* StorageUtil::ApplyDelta: a merge of the two headers, both taken to be   *)
(* sorted by column id; equal ids copy the delta's value into the buffer   *)
(***************************************************************************)
RECURSIVE ApplyDeltaFrom(_, _, _, _)
ApplyDeltaFrom(delta, buffer, delta_i, buffer_i) ==
  IF delta_i > Len(delta.header) \/ buffer_i > Len(buffer.header) THEN buffer
  ELSE IF delta.header[delta_i] = buffer.header[buffer_i]
       THEN ApplyDeltaFrom(delta, [buffer EXCEPT !.vals[buffer_i] = delta.vals[delta_i]],
                           delta_i + 1, buffer_i + 1)
       ELSE IF delta.header[delta_i] > buffer.header[buffer_i]
            THEN ApplyDeltaFrom(delta, buffer, delta_i, buffer_i + 1)
            ELSE ApplyDeltaFrom(delta, buffer, delta_i + 1, buffer_i)

ApplyDelta(delta, buffer) == ApplyDeltaFrom(delta, buffer, 1, 1)

(***************************************************************************)
(* SqlTable::Update                                                        *)
(***************************************************************************)
(* the header the delta carries when ApplyDelta runs in the migration *)
DeltaAtApply(delta, a) == [delta EXCEPT !.header = a.header]

(* a migration that puts the tuple back into the data table of the first version *)
MigrateInsert_First(tbls, pr, layout_version, want_slot) ==
  IF want_slot THEN InsertInto(tbls, pr, 0) ELSE tbls

(* line 115: the insert into the desired version's data table *)
MigrateInsert(tbls, pr, layout_version, want_slot) ==
  IF want_slot THEN InsertInto(tbls, pr, layout_version) ELSE tbls

(* a failed migration that leaves the output slot as the caller passed it *)
MigrateFailed_SlotUnset(tbls, curr_tuple, want_slot, header, steps) ==
  [result |-> FALSE, tables |-> tbls, out_slot |-> NoSlot, status |-> "ok",
   migrated |-> FALSE, written |-> NoRow, header |-> header, steps |-> steps]

(* lines 104-110: the Select, or the Delete after it, reports failure: the *)
(* output slot holds the slot of the call (line 105), the data tables are  *)
(* as they were and nothing is inserted                                    *)
MigrateFailed(tbls, curr_tuple, want_slot, header, steps) ==
  [result |-> FALSE, tables |-> tbls,
   out_slot |-> IF want_slot THEN curr_tuple ELSE NoSlot, status |-> "ok",
   migrated |-> FALSE, written |-> NoRow, header |-> header, steps |-> steps]

(* the branch of a migrating update after the header translation *)
Migrate(tbls, curr_tuple, delta, a, layout_version, want_slot, conflict, junk, asserts) ==
  LET tuple_version == TupleVersionOf(tbls, curr_tuple)
      desired_v == tbls[layout_version]
      pr == [header |-> SortedSeq(DOMAIN desired_v.column_id_to_oid_map_),
             vals |-> [i \in 1 .. Cardinality(DOMAIN desired_v.column_id_to_oid_map_) |-> NULL]]
      s == SelectRow(tbls, curr_tuple, pr, layout_version, junk, asserts)
      d == DataTable_Delete(tbls[tuple_version].data_table_, curr_tuple[2], conflict)
      deleted == [tbls EXCEPT ![tuple_version].data_table_ = d.dt]
      applied == ApplyDelta(DeltaAtApply(delta, a), s.pr)
      inserted == MigrateInsert(deleted, applied, layout_version, want_slot)
      header == RestoreHeader(a.header, a.cached_orig_header)
      select == <<Step("Select", tuple_version)>>
      delete == <<Step("Delete", tuple_version)>>
      insert == IF want_slot THEN <<Step("Insert", layout_version)>> ELSE <<>>
  IN  IF s.status = "assert"
      THEN [result |-> FALSE, tables |-> tbls, out_slot |-> NoSlot, status |-> "assert",
            migrated |-> FALSE, written |-> NoRow, header |-> a.header, steps |-> select]
      ELSE IF ~s.result
      THEN MigrateFailed(tbls, curr_tuple, want_slot, header, select)
      ELSE IF ~d.result
      THEN MigrateFailed(tbls, curr_tuple, want_slot, header, select \o delete)
      ELSE [result |-> TRUE, tables |-> inserted,
            out_slot |-> IF want_slot
                         THEN TupleSlot(layout_version, Len(inserted[layout_version].data_table_.slots))
                         ELSE NoSlot,
            status |-> "ok", migrated |-> TRUE, written |-> applied, header |-> header,
            steps |-> select \o delete \o insert]

UpdateRow(tbls, curr_tuple, delta, layout_version, want_slot, conflict, junk, asserts) ==
  LET tuple_version == TupleVersionOf(tbls, curr_tuple)
  IN  IF asserts /\ ~(tuple_version <= layout_version)
      THEN [result |-> FALSE, tables |-> tbls, out_slot |-> NoSlot, status |-> "assert",
            migrated |-> FALSE, written |-> NoRow, header |-> delta.header, steps |-> <<>>]
      ELSE IF tuple_version = layout_version
      THEN LET u == DataTable_Update(tbls[layout_version].data_table_, tbls[layout_version].layout_,
                                     curr_tuple[2], delta, conflict)
           IN  [result |-> u.result,
                tables |-> [tbls EXCEPT ![layout_version].data_table_ = u.dt],
                out_slot |-> IF want_slot THEN curr_tuple ELSE NoSlot, status |-> "ok",
                migrated |-> FALSE, written |-> NoRow, header |-> delta.header,
                steps |-> <<Step("Update", layout_version)>>]
      ELSE LET desired_v == tbls[layout_version]
               tuple_v == tbls[tuple_version]
               a == AlignHeaderToVersion(delta.header, tuple_v, desired_v)
           IN  IF a.missing_col = <<>>
               THEN LET u == DataTable_Update(tuple_v.data_table_, tuple_v.layout_, curr_tuple[2],
                                              [delta EXCEPT !.header = a.header], conflict)
                    IN  [result |-> u.result,
                         tables |-> [tbls EXCEPT ![tuple_version].data_table_ = u.dt],
                         out_slot |-> IF want_slot THEN curr_tuple ELSE NoSlot, status |-> "ok",
                         migrated |-> FALSE, written |-> NoRow,
                         header |-> RestoreHeader(a.header, a.cached_orig_header),
                         steps |-> <<Step("Update", tuple_version)>>]
               ELSE Migrate(tbls, curr_tuple, delta, a, layout_version, want_slot,
                            conflict, junk, asserts)

(* the update that never marks its transaction *)
AbortAfterUpdate_Never(result) == FALSE

(* line 122: if (!result) txn->SetMustAbort() *)
AbortAfterUpdate(result) == ~result

(* the logical row a caller expects after writing delta over row *)
Overwrite(row, delta_by_oid) ==
  [o \in DOMAIN row |-> IF o \in DOMAIN delta_by_oid THEN delta_by_oid[o] ELSE row[o]]

(* the default a version reader expects for a column absent in the tuple:  *)
(* that of the nearest forward version whose schema gives the column one   *)
ForwardDefault(tbls, oid, t, d) ==
  LET ws == {w \in t + 1 .. d : /\ oid \in SchemaOids(tbls[w].schema_)
                                /\ GetColumn(tbls[w].schema_, oid).def # NoDefault}
  IN  IF ws = {} THEN NULL
      ELSE GetColumn(tbls[CHOOSE w \in ws : \A x \in ws : w <= x].schema_, oid).def

(* the row of version t as a reader at version d expects to see it *)
ViewAt(tbls, row, t, d) ==
  [o \in SchemaOids(tbls[d].schema_) |->
     IF o \in DOMAIN row THEN row[o] ELSE ForwardDefault(tbls, o, t, d)]

Update(txn, slot, col_oids, layout_version, want_slot, conflict, junk, asserts) ==
  LET delta == RowOf(tables_, layout_version, col_oids, {}, TRUE)
      r == UpdateRow(tables_, slot, delta, layout_version, want_slot, conflict, junk, asserts)
      t == TupleVersionOf(tables_, slot)
      delta_by_oid == ByOid(tables_, layout_version, delta)
      changed == r.tables # tables_
      h1 == IF changed THEN [hist EXCEPT ![slot].touched = TRUE,
                                         ![slot].row = IF r.migrated THEN @
                                                       ELSE Overwrite(@, delta_by_oid)]
            ELSE hist
      h2 == IF r.migrated /\ r.out_slot # NoSlot
            THEN MapPut(h1, r.out_slot,
                        [row |-> Overwrite(ViewAt(tables_, hist[slot].row, t, layout_version),
                                           delta_by_oid),
                         version |-> layout_version, touched |-> FALSE, from |-> slot])
            ELSE h1
  IN  /\ writes' = writes + 1
      /\ tables_' = r.tables
      /\ must_abort' = IF r.status = "ok" /\ AbortAfterUpdate(r.result)
                       THEN [must_abort EXCEPT ![txn] = TRUE] ELSE must_abort
      /\ hist' = h2
      /\ last' = [NoCall EXCEPT !.op = "Update", !.txn = txn, !.slot = slot,
                                !.version = layout_version, !.result = r.result,
                                !.status = r.status, !.header = delta.header,
                                !.pr = [delta EXCEPT !.header = r.header],
                                !.out_slot = r.out_slot, !.want_slot = want_slot,
                                !.conflict = conflict, !.steps = r.steps,
                                !.redo_buffer = StageWrite(slot)]
      /\ UNCHANGED <<num_versions_, scan>>

(***************************************************************************)
(* SqlTable::Delete                                                        *)
(***************************************************************************)
(* the delete that marks its transaction whatever the data table answered *)
AbortAfterDelete_Always(result) == TRUE

(* sql_table.h lines 126-130: if (!result) txn->SetMustAbort() *)
AbortAfterDelete(result) == ~result

(* a delete that goes to the data table of the newest version *)
DeleteTarget_Latest(tbls, slot) ==
  CHOOSE v \in DOMAIN tbls :
     /\ tbls[v].data_table_.allocated
     /\ \A w \in DOMAIN tbls : tbls[w].data_table_.allocated => w <= v

(* lines 123-124: the data table Delete acts on is tables_.at(tuple_version) *)
DeleteTarget(tbls, slot) == TupleVersionOf(tbls, slot)

Delete(txn, slot, conflict) ==
  LET tuple_version == DeleteTarget(tables_, slot)
      d == DataTable_Delete(tables_[tuple_version].data_table_, slot[2], conflict)
  IN  /\ writes' = writes + 1
      /\ tables_' = [tables_ EXCEPT ![tuple_version].data_table_ = d.dt]
      /\ must_abort' = IF AbortAfterDelete(d.result)
                       THEN [must_abort EXCEPT ![txn] = TRUE] ELSE must_abort
      /\ hist' = IF d.result THEN [hist EXCEPT ![slot].touched = TRUE] ELSE hist
      /\ last' = [NoCall EXCEPT !.op = "Delete", !.txn = txn, !.slot = slot,
                                !.version = tuple_version, !.result = d.result,
                                !.conflict = conflict,
                                !.steps = <<Step("Delete", tuple_version)>>,
                                !.redo_buffer = StageDelete(slot)]
      /\ UNCHANGED <<num_versions_, scan>>

(***************************************************************************)
(* DataTable::begin / end and the slot iterator: a position <<version,     *)
(* index>> in the block of a data table; end() is the slot the next insert *)
(* takes                                                                   *)
(***************************************************************************)
DataTable_begin(v) == TupleSlot(v, 1)

DataTable_end(tbls, v) == TupleSlot(v, Len(tbls[v].data_table_.slots) + 1)

(* SqlTable::begin() : tables_.begin()->data_table_->begin() *)
begin == DataTable_begin(0)

(* SqlTable::end(layout_version) *)
end(tbls, layout_version) == DataTable_end(tbls, layout_version)

(* SqlTable::end() : tables_[num_versions_ - 1].data_table_->end() *)
EndHasDataTable(tbls, num) ==
  num - 1 \in DOMAIN tbls /\ tbls[num - 1].data_table_.allocated

(***************************************************************************)
(* DataTable::IncrementalScan: from the iterator on, every visible tuple   *)
(* is materialised into row `filled` of the batch until the batch is full  *)
(* or the table ends; then SetNumTuples(filled)                            *)
(***************************************************************************)
RECURSIVE IncrementalScan(_, _, _, _, _, _, _)
IncrementalScan(dt, layout, v, idx, header, rows, max_tuples) ==
  IF Len(rows) >= max_tuples \/ idx > Len(dt.slots)
  THEN [pos |-> TupleSlot(v, idx), rows |-> rows]
  ELSE LET blank == [header |-> header, vals |-> [i \in DOMAIN header |-> NULL]]
           r == DataTable_Select(dt, layout, idx, blank, EmptyMap)
       IN  IncrementalScan(dt, layout, v, idx + 1, header,
                           IF r.result
                           THEN Append(rows, [slot |-> TupleSlot(v, idx), vals |-> r.pr.vals])
                           ELSE rows,
                           max_tuples)

(***************************************************************************)
(* SqlTable::Scan                                                          *)
(***************************************************************************)
(* line 168: IncrementalScan is called without the size map of the header  *)
(* translation, so an attribute lands in the buffer at its stored size: of *)
(* a wider stored attribute the slot holds the low-order bytes, above a    *)
(* narrower one the slot keeps the bytes the buffer held before (junk).    *)
(* The bytes a wider attribute writes past its slot are not followed.      *)
ScanAttr(v, stored_size, slot_size, junk) ==
  IF v = NULL THEN NULL
  ELSE IF stored_size >= slot_size THEN LowBytes(v, slot_size)
  ELSE LowBytes(v, stored_size) + junk * Pow256(stored_size)

(* line 164: the loop goes on while the batch, as the buffer reports it, has room *)
BatchHasRoom(num_tuples, max_tuples) == num_tuples < max_tuples

(* the loop over the versions i = tuple_version .. layout_version; filled is *)
(* the local counter, num_tuples what out_buffer->NumTuples() returns        *)
RECURSIVE ScanVersions(_, _, _, _, _, _, _, _, _, _, _)
ScanVersions(tbls, i, tuple_version, layout_version, pos, header, rows, num_tuples, max_tuples, junk, asserts) ==
  IF ~(i <= layout_version /\ BatchHasRoom(num_tuples, max_tuples))
  THEN [pos |-> pos, rows |-> rows, num_tuples |-> num_tuples, status |-> "ok", header |-> header]
  ELSE LET tuple_v == tbls[i]
           a == AlignHeaderToVersion(header, tuple_v, tbls[layout_version])
           start == IF i # tuple_version THEN DataTable_begin(i) ELSE pos
           r == IncrementalScan(tuple_v.data_table_, tuple_v.layout_, i, start[2],
                                a.header, rows, max_tuples)
           filled == Len(r.rows)
           restored == RestoreHeader(a.header, a.cached_orig_header)
           landed == [k \in 1 .. filled |->
                        IF k > Len(rows)
                        THEN [r.rows[k] EXCEPT !.vals =
                                [p \in DOMAIN @ |->
                                   IF a.header[p] = IGNORE_COLUMN_ID THEN @[p]
                                   ELSE ScanAttr(@[p], AttrSize(tuple_v.layout_, a.header[p]),
                                                 AttrSize(tbls[layout_version].layout_,
                                                          a.cached_orig_header[p]),
                                                 junk)]]
                        ELSE r.rows[k]]
           fill(row) == FillMissingColumns(tbls, [header |-> restored, vals |-> row.vals],
                                           a.missing_col, tuple_version, layout_version, junk).vals
           done == [k \in 1 .. filled |->
                      IF k > Len(rows) /\ a.missing_col # <<>>
                      THEN [landed[k] EXCEPT !.vals = fill(landed[k])]
                      ELSE landed[k]]
       IN  IF /\ asserts
              /\ filled > Len(rows)
              /\ a.missing_col # <<>>
              /\ ~FillAssertHolds(tbls, a.missing_col, layout_version)
           THEN [pos |-> r.pos, rows |-> landed, num_tuples |-> filled, status |-> "assert",
                 header |-> restored]
           ELSE ScanVersions(tbls, i + 1, tuple_version, layout_version, r.pos, restored,
                             done, filled, max_tuples, junk, asserts)

(* one call of Scan: the buffer arrives holding num_tuples rows *)
ScanBatch(tbls, pos, header, rows, num_tuples, max_tuples, layout_version, junk, asserts) ==
  LET tuple_version == pos[1]
  IN  IF tuple_version = layout_version
      THEN LET r == IncrementalScan(tbls[layout_version].data_table_, tbls[layout_version].layout_,
                                    layout_version, pos[2], header, <<>>, max_tuples)
           IN  [pos |-> r.pos, rows |-> r.rows, num_tuples |-> Len(r.rows), status |-> "ok",
                header |-> header]
      ELSE IF BatchHasRoom(num_tuples, max_tuples)
           THEN ScanVersions(tbls, tuple_version, tuple_version, layout_version, pos, header,
                             <<>>, num_tuples, max_tuples, junk, asserts)
           ELSE [pos |-> pos, rows |-> rows, num_tuples |-> num_tuples, status |-> "ok",
                 header |-> header]

(* auto it = begin(); the buffer from InitializerForProjectedColumns over   *)
(* every column of the version                                              *)
StartScan(layout_version, max_tuples) ==
  /\ ~scan.active
  /\ scan' = [NoScan EXCEPT !.active = TRUE, !.version = layout_version, !.pos = begin,
                            !.header = SortedSeq(DOMAIN tables_[layout_version].column_id_to_oid_map_),
                            !.max_tuples = max_tuples]
  /\ UNCHANGED <<tables_, num_versions_, must_abort, last, hist, writes>>

(* while (it != end(layout_version)) Scan(txn, &it, buffer, layout_version); *)
(* the caller reads NumTuples() rows of the buffer after every call; it     *)
(* either keeps the buffer for the next call or initialises a fresh one     *)
Scan(txn, fresh, junk, asserts) ==
  LET r == ScanBatch(tables_, scan.pos, scan.header,
                     IF fresh THEN <<>> ELSE scan.rows,
                     IF fresh THEN 0 ELSE scan.num_tuples,
                     scan.max_tuples, scan.version, junk, asserts)
  IN  /\ scan.active
      /\ scan.status = "ok"
      /\ scan.pos # end(tables_, scan.version)
      /\ scan' = [scan EXCEPT !.pos = r.pos, !.rows = r.rows, !.num_tuples = r.num_tuples,
                              !.status = r.status, !.header = r.header,
                              !.delivered = IF r.status = "ok"
                                            THEN @ \o [k \in 1 .. r.num_tuples |-> r.rows[k].slot]
                                            ELSE @]
      /\ UNCHANGED <<tables_, num_versions_, must_abort, last, hist, writes>>

(* one call of Scan with it = begin() and a freshly initialised buffer over *)
(* every column of the version; the caller looks at the iterator and at the *)
(* header of the buffer                                                     *)
ScanFromBegin(txn, layout_version, max_tuples, junk, asserts) ==
  LET header == SortedSeq(DOMAIN tables_[layout_version].column_id_to_oid_map_)
      r == ScanBatch(tables_, begin, header, <<>>, 0, max_tuples, layout_version, junk, asserts)
  IN  /\ last' = [NoCall EXCEPT !.op = "Scan", !.txn = txn, !.slot = r.pos,
                                !.version = layout_version, !.result = TRUE,
                                !.status = r.status, !.header = header,
                                !.pr = [header |-> r.header, vals |-> <<>>]]
      /\ UNCHANGED <<tables_, num_versions_, must_abort, hist, writes, scan>>

(***************************************************************************)
(* The callers                                                             *)
(***************************************************************************)
RegisteredVersions == {v \in DOMAIN tables_ : tables_[v].data_table_.allocated}

(* a caller makes one call at a time and takes its result before the next; *)
(* a transaction that must abort makes no further call; Select and Update  *)
(* are called at a version that is not below the version of the tuple      *)
Idle == last.op = "none"

Live(txn) == ~must_abort[txn]

DoUpdateSchema ==
  /\ Idle
  /\ UNCHANGED schema_writers
  /\ \E txn \in Txns : \E schema \in AlteredSchemas(tables_, LatestSchema(tables_, num_versions_)) :
        Live(txn) /\ UpdateSchema(txn, schema, num_versions_)

(* the callers of this specification follow one tuple through its life: the *)
(* data tables keep no relation between tuples, and the scan, which reads   *)
(* several, has a specification of its own                                  *)
DoInsert ==
  /\ Idle
  /\ UNCHANGED schema_writers
  /\ NumInserted = 0
  /\ \E txn \in Txns : \E v \in RegisteredVersions :
        \E nulls \in NullMasks(DOMAIN tables_[v].column_oid_to_id_map_) :
           Live(txn) /\ Insert(txn, nulls, v)

(* the builds: with TERRIER_ASSERT compiled in, when the assertion of the   *)
(* default filler can fail for this read; and without                       *)
Builds(slot, v) ==
  IF \/ TupleVersionOf(tables_, slot) > v
     \/ \E o \in DOMAIN tables_[v].column_oid_to_id_map_ :
          /\ o \notin DOMAIN tables_[TupleVersionOf(tables_, slot)].column_oid_to_id_map_
          /\ \/ o \notin DOMAIN tables_[v].default_value_map_
             \/ ~IsConstant(tables_[v].default_value_map_[o])
  THEN BOOLEAN ELSE {FALSE}

(* what the bytes of the caller's buffer, and of an expression read through *)
(* an unchecked cast, held before the call; it shows only where a default   *)
(* is narrower than the slot it is copied into or is not a constant         *)
Junks(slot, v) ==
  IF \E o \in DOMAIN tables_[v].column_oid_to_id_map_ :
        \E w \in TupleVersionOf(tables_, slot) + 1 .. v :
           /\ o \in DOMAIN tables_[w].default_value_map_
           /\ \/ AttrBytes(GetColumn(tables_[w].schema_, o).size)
                   < AttrBytes(GetColumn(tables_[v].schema_, o).size)
              \/ ~IsConstant(tables_[w].default_value_map_[o])
  THEN {0, 1} ELSE {0}

DoSelect ==
  /\ Idle
  /\ UNCHANGED schema_writers
  /\ \E txn \in Txns : \E slot \in AllSlots(tables_) : \E v \in RegisteredVersions :
        \E col_oids \in Projections(tables_, v) :
           \E junk \in Junks(slot, v) : \E asserts \in Builds(slot, v) :
              /\ Live(txn)
              /\ TupleVersionOf(tables_, slot) <= v
              /\ Select(txn, slot, col_oids, v, junk, asserts)

DoUpdate ==
  /\ Idle
  /\ UNCHANGED schema_writers
  /\ writes < MaxWrites
  /\ \E txn \in Txns : \E slot \in AllSlots(tables_) : \E v \in RegisteredVersions :
        \E col_oids \in Projections(tables_, v) : \E want_slot \in BOOLEAN :
           \E conflict \in BOOLEAN : \E junk \in Junks(slot, v) : \E asserts \in Builds(slot, v) :
              /\ Live(txn)
              /\ TupleVersionOf(tables_, slot) <= v
              /\ Update(txn, slot, col_oids, v, want_slot, conflict, junk, asserts)

DoDelete ==
  /\ Idle
  /\ UNCHANGED schema_writers
  /\ writes < MaxWrites
  /\ \E txn \in Txns : \E slot \in AllSlots(tables_) : \E conflict \in BOOLEAN :
        Live(txn) /\ Delete(txn, slot, conflict)

DoScanFromBegin ==
  /\ Idle
  /\ UNCHANGED schema_writers
  /\ \E txn \in Txns : \E v \in RegisteredVersions : \E max_tuples \in 1 .. MaxBatch :
        \E junk \in Junks(begin, v) : \E asserts \in BOOLEAN :
           Live(txn) /\ ScanFromBegin(txn, v, max_tuples, junk, asserts)

(* the caller takes the result of its call *)
Return ==
  /\ ~Idle
  /\ UNCHANGED schema_writers
  /\ last' = NoCall
  /\ UNCHANGED <<tables_, num_versions_, must_abort, hist, writes, scan>>

Next ==
  DoUpdateSchema \/ DoInsert \/ DoSelect \/ DoUpdate \/ DoDelete \/ DoScanFromBegin \/ Return

Spec == Init /\ [][Next]_vars

(***************************************************************************)
(* A table that is built, and then scanned with no writer at work          *)
(***************************************************************************)
SetupSchema == ~scan.active /\ DoUpdateSchema

SetupInsert ==
  /\ ~scan.active
  /\ UNCHANGED schema_writers
  /\ Idle
  /\ NumInserted < MaxTuples
  /\ \E txn \in Txns : \E v \in RegisteredVersions : Live(txn) /\ Insert(txn, {}, v)

SetupDelete == ~scan.active /\ DoDelete

BeginScan ==
  /\ Idle
  /\ UNCHANGED schema_writers
  /\ \E v \in RegisteredVersions : \E max_tuples \in 1 .. MaxBatch : StartScan(v, max_tuples)

(* the versions the scan still has to read hold a column the version of the *)
(* iterator lacks: the filler runs, and the build matters                   *)
ScanBuilds ==
  IF \E i \in scan.pos[1] .. scan.version :
        \E o \in DOMAIN tables_[scan.version].column_oid_to_id_map_ :
           /\ o \notin DOMAIN tables_[i].column_oid_to_id_map_
           /\ o \notin DOMAIN tables_[scan.version].default_value_map_
  THEN BOOLEAN ELSE {FALSE}

(* what the bytes of the batch buffer held before the call; it shows only *)
(* where a column of the scanned version is wider than in a version the   *)
(* scan reads                                                             *)
ScanJunks ==
  IF \E i \in scan.pos[1] .. scan.version :
        \E o \in DOMAIN tables_[scan.version].column_oid_to_id_map_ :
           /\ o \in DOMAIN tables_[i].column_oid_to_id_map_
           /\ AttrBytes(GetColumn(tables_[i].schema_, o).size)
                 < AttrBytes(GetColumn(tables_[scan.version].schema_, o).size)
  THEN {0, 1} ELSE {0}

DoScan ==
  /\ scan.active
  /\ UNCHANGED schema_writers
  /\ Len(scan.delivered) <= MaxTuples
  /\ \E txn \in Txns : \E fresh \in BOOLEAN :
        \E junk \in Junks(scan.pos, scan.version) \cup ScanJunks : \E asserts \in ScanBuilds :
           Live(txn) /\ Scan(txn, fresh, junk, asserts)

NextScan == SetupSchema \/ SetupInsert \/ SetupDelete \/ Return \/ BeginScan \/ DoScan

SpecScan == Init /\ [][NextScan]_vars

(***************************************************************************)
(* The getters of a version: GetColumnOidToIdMap, GetColumnIdToOidMap and  *)
(* GetBlockLayout.  tables_.at() throws std::out_of_range beyond the       *)
(* MAX_NUM_VERSIONS entries of the vector; an entry that was never built   *)
(* is a default-constructed DataTableVersion.                              *)
(***************************************************************************)
Getters == {"GetColumnOidToIdMap", "GetColumnIdToOidMap", "GetBlockLayout"}

(* the TERRIER_ASSERT of each getter *)
GetterAssertHolds(getter, tbls, num, layout_version) ==
  IF getter = "GetColumnOidToIdMap"
  THEN layout_version < num
  ELSE layout_version < MAX_NUM_VERSIONS /\ tbls[layout_version].data_table_.allocated

Get(txn, getter, layout_version, asserts) ==
  LET status == IF asserts /\ ~GetterAssertHolds(getter, tables_, num_versions_, layout_version)
                THEN "assert"
                ELSE IF layout_version \notin DOMAIN tables_ THEN "throw" ELSE "ok"
  IN  /\ last' = [NoCall EXCEPT !.op = getter, !.txn = txn, !.version = layout_version,
                                !.result = (status = "ok"), !.status = status]
      /\ UNCHANGED <<tables_, num_versions_, must_abort, hist, writes, scan>>

(***************************************************************************)
(* Callers that do not keep to the discipline: a Select or an Update at a  *)
(* version below the version of the tuple, a getter for a version id that  *)
(* may not be registered, a schema with a default that is not a constant   *)
(***************************************************************************)
DoSelectSkew ==
  /\ Idle
  /\ UNCHANGED schema_writers
  /\ \E txn \in Txns : \E slot \in AllSlots(tables_) : \E v \in RegisteredVersions :
        \E col_oids \in Projections(tables_, v) : \E asserts \in Builds(slot, v) :
           /\ Live(txn)
           /\ TupleVersionOf(tables_, slot) > v
           /\ Select(txn, slot, col_oids, v, 0, asserts)

DoUpdateSkew ==
  /\ Idle
  /\ UNCHANGED schema_writers
  /\ writes < MaxWrites
  /\ \E txn \in Txns : \E slot \in AllSlots(tables_) : \E v \in RegisteredVersions :
        \E col_oids \in Projections(tables_, v) : \E want_slot \in BOOLEAN :
           \E conflict \in BOOLEAN : \E asserts \in Builds(slot, v) :
              /\ Live(txn)
              /\ TupleVersionOf(tables_, slot) > v
              /\ Update(txn, slot, col_oids, v, want_slot, conflict, 0, asserts)

DoGet ==
  /\ Idle
  /\ UNCHANGED schema_writers
  /\ \E txn \in Txns : \E getter \in Getters : \E v \in 0 .. MAX_NUM_VERSIONS :
        \E asserts \in BOOLEAN : Live(txn) /\ Get(txn, getter, v, asserts)

DoUpdateSchemaNonConstant ==
  /\ Idle
  /\ UNCHANGED schema_writers
  /\ Len(LatestSchema(tables_, num_versions_)) < MaxCols
  /\ \E txn \in Txns : \E size \in AddSizes :
        /\ Live(txn)
        /\ UpdateSchema(txn, AddColumn(LatestSchema(tables_, num_versions_), size, NonConstant),
                        num_versions_)

NextMisuse ==
  \/ DoUpdateSchema \/ DoInsert \/ Return
  \/ DoSelectSkew \/ DoUpdateSkew \/ DoGet \/ DoUpdateSchemaNonConstant

SpecMisuse == Init /\ [][NextMisuse]_vars

(***************************************************************************)
(* SqlTable::CreateTable line by line, as the thread of a schema change    *)
(* runs it while readers call into the table                               *)
(***************************************************************************)
(* auto curr_num = ++num_versions_, and the locals built before the loop *)
CreateTable_Increment(schema, version) ==
  LET curr_num == (num_versions_ + 1) % Uint8Mod
      attr_sizes == Repeat(8, NUM_RESERVED_COLUMNS)
                      \o [i \in 1 .. Len(schema) |-> schema[i].size]
  IN  /\ creating.pc = "idle"
      /\ version >= num_versions_
      /\ num_versions_' = curr_num
      /\ creating' = [pc |-> IF AtCapacity(curr_num) THEN "store" ELSE "columns",
                      schema |-> schema, version |-> version, curr_num |-> curr_num, i |-> 1,
                      attr_sizes |-> attr_sizes,
                      offsets |-> ComputeBaseAttributeOffsets(attr_sizes, NUM_RESERVED_COLUMNS)]
      /\ UNCHANGED <<tables_, must_abort, last, hist, writes, scan, alter, racing>>

(* num_versions_.store(MAX_NUM_VERSIONS); return false *)
CreateTable_AtCapacity ==
  /\ creating.pc = "store"
  /\ Idle
  /\ num_versions_' = MAX_NUM_VERSIONS
  /\ creating' = NoCreate
  /\ last' = [NoCall EXCEPT !.op = "UpdateSchema", !.version = creating.version]
  /\ UNCHANGED <<tables_, must_abort, hist, writes, scan, alter, racing>>

(* one iteration of the loop over schema->GetColumns() *)
CreateTable_MapColumn ==
  LET column == creating.schema[creating.i]
      k == SizeClassOf(column.size)
  IN  /\ creating.pc = "columns"
      /\ creating.i <= Len(creating.schema)
      /\ IF k = 0
         THEN /\ Idle
              /\ creating' = NoCreate
              /\ last' = [NoCall EXCEPT !.op = "UpdateSchema", !.version = creating.version,
                                        !.status = "throw"]
              /\ UNCHANGED tables_
         ELSE /\ tables_' = [tables_ EXCEPT ![creating.curr_num - 1] =
                                MapOneColumn(@, column, creating.offsets[k])]
              /\ creating' = [creating EXCEPT !.i = @ + 1, !.offsets[k] = @ + 1]
              /\ UNCHANGED last
      /\ UNCHANGED <<num_versions_, must_abort, hist, writes, scan, alter, racing>>

(* tables_[curr_num - 1].layout_ = storage::BlockLayout(attr_sizes) *)
CreateTable_Layout ==
  /\ creating.pc = "columns"
  /\ creating.i > Len(creating.schema)
  /\ tables_' = [tables_ EXCEPT ![creating.curr_num - 1].layout_ = BlockLayout(creating.attr_sizes)]
  /\ creating' = [creating EXCEPT !.pc = "schema"]
  /\ UNCHANGED <<num_versions_, must_abort, last, hist, writes, scan, alter, racing>>

(* tables_[curr_num - 1].schema_ = schema *)
CreateTable_Schema ==
  /\ creating.pc = "schema"
  /\ tables_' = [tables_ EXCEPT ![creating.curr_num - 1].schema_ = creating.schema]
  /\ creating' = [creating EXCEPT !.pc = "data_table"]
  /\ UNCHANGED <<num_versions_, must_abort, last, hist, writes, scan, alter, racing>>

(* tables_[curr_num - 1].data_table_ = new DataTable(...); return true *)
CreateTable_DataTable ==
  /\ creating.pc = "data_table"
  /\ Idle
  /\ tables_' = [tables_ EXCEPT ![creating.curr_num - 1].data_table_ = NewDataTable(creating.version)]
  /\ creating' = NoCreate
  /\ last' = [NoCall EXCEPT !.op = "UpdateSchema", !.version = creating.version, !.result = TRUE]
  /\ UNCHANGED <<num_versions_, must_abort, hist, writes, scan, alter, racing>>

(* SqlTable::end() : tables_[num_versions_ - 1].data_table_->end().  An    *)
(* entry beyond the vector, or a data table that is still null, is         *)
(* undefined behaviour.                                                    *)
End(outcome) ==
  LET v == num_versions_ - 1
      defined == v \in DOMAIN tables_ /\ tables_[v].data_table_.allocated
  IN  /\ last' = [NoCall EXCEPT !.op = "end", !.version = v,
                                !.result = IF defined THEN TRUE ELSE outcome,
                                !.status = IF defined THEN "ok" ELSE "undefined",
                                !.slot = IF defined
                                         THEN TupleSlot(v, Len(tables_[v].data_table_.slots) + 1)
                                         ELSE NoSlot]
      /\ UNCHANGED <<tables_, num_versions_, must_abort, hist, writes, scan, creating, alter, racing>>

DoCreateTable ==
  \E schema \in AlteredSchemas(tables_, LatestSchema(tables_, num_versions_)) :
     CreateTable_Increment(schema, num_versions_)

DoEnd ==
  /\ Idle
  /\ \E outcome \in BOOLEAN : End(outcome)

NextConcurrent ==
  \/ DoCreateTable \/ CreateTable_AtCapacity \/ CreateTable_MapColumn \/ CreateTable_Layout
  \/ CreateTable_Schema \/ CreateTable_DataTable \/ DoEnd \/ Return

SpecConcurrent == Init /\ [][NextConcurrent]_vars

(***************************************************************************)
(* Several transactions alter the table at the same time.  Each began on   *)
(* the same schema; the catalog lets the first write of the table's row    *)
(* pass and fails the others with a write-write conflict, so that only the *)
(* winner calls SqlTable::UpdateSchema.                                    *)
(***************************************************************************)
(* AlterTableCmdExecutor::AddColumn : cols->push_back(new_col) *)
AlterTableCmdExecutor_AddColumn(cols, new_col) == Append(cols, new_col)

(* the column a transaction adds: an INTEGER with a constant default *)
NewColumn(cols) ==
  Column((CHOOSE o \in SchemaOids(cols) : \A p \in SchemaOids(cols) : p <= o) + 1, 4, DefaultInt)

AlterBegin ==
  /\ Idle
  /\ alter.pc = "idle"
  /\ alter' = [NoAlter EXCEPT !.pc = "running",
                              !.start = Cardinality(RegisteredVersions),
                              !.original = LatestSchema(tables_, num_versions_),
                              !.cols = [a \in Alterers |-> LatestSchema(tables_, num_versions_)]]
  /\ UNCHANGED <<tables_, num_versions_, must_abort, last, hist, writes, scan, creating, racing>>

AlterTableExecutor(a) ==
  LET cols == AlterTableCmdExecutor_AddColumn(alter.original, NewColumn(alter.original))
  IN  IF alter.owner = "none"
      THEN /\ \E txn \in Txns : UpdateSchema(txn, cols, num_versions_)
           /\ alter' = [alter EXCEPT !.owner = a, !.done = @ \cup {a},
                                     !.succeeded = IF last'.result THEN @ \cup {a} ELSE @,
                                     !.cols[a] = IF last'.result THEN cols ELSE @]
           /\ UNCHANGED <<creating, racing>>
      ELSE /\ alter' = [alter EXCEPT !.done = @ \cup {a}]
           /\ UNCHANGED <<tables_, num_versions_, must_abort, last, hist, writes, scan, creating, racing>>

AlterExecute ==
  /\ Idle
  /\ alter.pc = "running"
  /\ \E a \in Alterers \ alter.done : AlterTableExecutor(a)

(* the winner commits, the others abort *)
AlterFinish ==
  /\ alter.pc = "running"
  /\ alter.done = Alterers
  /\ alter' = NoAlter
  /\ UNCHANGED <<tables_, num_versions_, must_abort, last, hist, writes, scan, creating, racing>>

(* a schema change by one transaction alone *)
AlterAlone == alter.pc = "idle" /\ DoUpdateSchema

NextAlter == AlterAlone \/ AlterBegin \/ AlterExecute \/ AlterFinish \/ Return

SpecAlter == Init /\ [][NextAlter]_vars

(***************************************************************************)
(* AlignHeaderToVersion on the header of a projection of version           *)
(* layout_version, for a tuple of version tuple_version                    *)
(***************************************************************************)
Align(col_oids, tuple_version, layout_version) ==
  LET out_buffer == InitializerForProjectedRow(tables_, col_oids, layout_version)
      a == AlignHeaderToVersion(out_buffer.header, tables_[tuple_version], tables_[layout_version])
  IN  /\ last' = [NoCall EXCEPT !.op = "AlignHeaderToVersion", !.version = layout_version,
                                !.tuple_version = tuple_version,
                                !.header = out_buffer.header, !.align = a]
      /\ UNCHANGED <<tables_, num_versions_, must_abort, hist, writes, scan>>

DoAlign ==
  /\ Idle
  /\ UNCHANGED schema_writers
  /\ \E layout_version \in RegisteredVersions : \E tuple_version \in RegisteredVersions :
        \E col_oids \in SUBSET DOMAIN tables_[layout_version].column_oid_to_id_map_ :
           /\ tuple_version <= layout_version
           /\ col_oids # {}
           /\ Align(col_oids, tuple_version, layout_version)

NextAlign == DoUpdateSchema \/ DoAlign \/ Return

SpecAlign == Init /\ [][NextAlign]_vars

(***************************************************************************)
(* Schemas that give a column the table has already another default, and   *)
(* the reads of a tuple of an older version                                *)
(***************************************************************************)
ChangeDefaults == {NULL, DefaultInt + 1}

ChangeDefault(schema, oid, def) ==
  [i \in DOMAIN schema |-> IF schema[i].oid = oid THEN [schema[i] EXCEPT !.def = def]
                           ELSE schema[i]]

DoUpdateSchemaChangeDefault ==
  /\ Idle
  /\ UNCHANGED schema_writers
  /\ \E txn \in Txns : \E oid \in SchemaOids(LatestSchema(tables_, num_versions_)) :
        \E def \in ChangeDefaults :
           /\ Live(txn)
           /\ GetColumn(LatestSchema(tables_, num_versions_), oid).def \notin {NoDefault, def}
           /\ UpdateSchema(txn, ChangeDefault(LatestSchema(tables_, num_versions_), oid, def),
                           num_versions_)

NextDefaults ==
  DoUpdateSchema \/ DoUpdateSchemaChangeDefault \/ DoInsert \/ DoSelect \/ Return

SpecDefaults == Init /\ [][NextDefaults]_vars

(***************************************************************************)
(* Schemas that change the type of a column to a narrower or a wider one   *)
(* (ChangeColType of the tests), and the reads and writes of a tuple of an *)
(* older version                                                           *)
(***************************************************************************)
ResizeSizes == {1, 2, 4}

DoUpdateSchemaChangeType ==
  /\ Idle
  /\ UNCHANGED schema_writers
  /\ \E txn \in Txns : \E oid \in SchemaOids(LatestSchema(tables_, num_versions_)) :
        \E size \in ResizeSizes :
           /\ Live(txn)
           /\ GetColumn(LatestSchema(tables_, num_versions_), oid).size # size
           /\ UpdateSchema(txn, ChangeColType(LatestSchema(tables_, num_versions_), oid, size),
                           num_versions_)

NextResize ==
  DoUpdateSchemaChangeType \/ DoInsert \/ DoSelect \/ Return

SpecResize == Init /\ [][NextResize]_vars

NextResizeWrite ==
  DoUpdateSchemaChangeType \/ DoInsert \/ DoSelect \/ DoUpdate \/ Return

SpecResizeWrite == Init /\ [][NextResizeWrite]_vars

(***************************************************************************)
(* Updates of a tuple that an earlier Delete may have removed: the writes  *)
(* of the transaction before the Update are counted, the Update is not;    *)
(* the schema changes add columns, which is what makes an Update migrate   *)
(***************************************************************************)
DoUpdateSchemaAddColumn ==
  /\ Idle
  /\ UNCHANGED schema_writers
  /\ Len(LatestSchema(tables_, num_versions_)) < MaxCols
  /\ \E txn \in Txns : \E size \in AddSizes : \E def \in AddDefaults :
        /\ Live(txn)
        /\ UpdateSchema(txn, AddColumn(LatestSchema(tables_, num_versions_), size, def),
                        num_versions_)

DoUpdateAfterWrites ==
  /\ Idle
  /\ UNCHANGED schema_writers
  /\ writes <= MaxWrites
  /\ \E txn \in Txns : \E slot \in AllSlots(tables_) : \E v \in RegisteredVersions :
        \E col_oids \in Projections(tables_, v) : \E want_slot \in BOOLEAN :
           \E conflict \in BOOLEAN : \E junk \in Junks(slot, v) : \E asserts \in Builds(slot, v) :
              /\ Live(txn)
              /\ TupleVersionOf(tables_, slot) <= v
              /\ Update(txn, slot, col_oids, v, want_slot, conflict, junk, asserts)

(* the tuple is inserted with a value in every column *)
DoInsertFull ==
  /\ Idle
  /\ UNCHANGED schema_writers
  /\ NumInserted = 0
  /\ \E txn \in Txns : \E v \in RegisteredVersions : Live(txn) /\ Insert(txn, {}, v)

NextMigrate ==
  DoUpdateSchemaAddColumn \/ DoInsertFull \/ DoDelete \/ DoUpdateAfterWrites \/ Return

SpecMigrate == Init /\ [][NextMigrate]_vars

(***************************************************************************)
(* Two threads run a migrating Update on the same slot, each for its own   *)
(* transaction; both transactions began before either wrote.  A thread     *)
(* takes the steps of lines 104-126 one call on a data table at a time.    *)
(* The data tables give every transaction its snapshot: a Select sees the  *)
(* tuple as it was when the transactions began, and a Delete of a tuple    *)
(* that another transaction has written since fails with a write-write     *)
(* conflict.  The build is a release build.                                *)
(***************************************************************************)
RaceDelta(v) == RowOf(tables_, v, SchemaOids(tables_[v].schema_), {}, TRUE)

RaceAlign(slot, v) ==
  AlignHeaderToVersion(RaceDelta(v).header, tables_[TupleVersionOf(tables_, slot)], tables_[v])

(* the data tables as the snapshot of the racing transactions shows them *)
RaceSnapshot ==
  [tables_ EXCEPT ![racing.slot[1]].data_table_.slots[racing.slot[2]].deleted = ~racing.visible]

(* the insert that does not look at the result of the Delete *)
InsertAfterDelete_Always(result) == TRUE

(* line 110: if (result), the tuple is inserted into the new data table *)
InsertAfterDelete(result) == result

RaceSetupSchema == racing.pc = "idle" /\ DoUpdateSchemaAddColumn

RaceSetupInsert == racing.pc = "idle" /\ DoInsertFull

RaceSetupDelete == racing.pc = "idle" /\ DoDelete

(* lines 68-87: both calls are past the assertions and the header          *)
(* translation, and found columns that the tuple's version lacks           *)
RaceBegin ==
  /\ Idle
  /\ racing.pc = "idle"
  /\ \E slot \in AllSlots(tables_) : \E vs \in [Racers -> RegisteredVersions] :
        \E ws \in [Racers -> BOOLEAN] :
           /\ \A t \in Racers : /\ TupleVersionOf(tables_, slot) < vs[t]
                                /\ RaceAlign(slot, vs[t]).missing_col # <<>>
           /\ racing' = [pc |-> "running", slot |-> slot,
                         visible |-> Visible(tables_[slot[1]].data_table_, slot[2]),
                         before |-> AllSlots(tables_),
                         frame |-> [t \in Racers |->
                                      [NoFrame EXCEPT !.pc = "select", !.version = vs[t],
                                                      !.want_slot = ws[t]]]]
  /\ UNCHANGED <<tables_, num_versions_, must_abort, last, hist, writes, scan, creating, alter>>

(* lines 97-105: result = Select(txn, curr_tuple, pr, layout_version), and *)
(* the output slot takes the slot of the call                              *)
RaceSelect(t) ==
  LET f == racing.frame[t]
      desired_v == tables_[f.version]
      pr == [header |-> SortedSeq(DOMAIN desired_v.column_id_to_oid_map_),
             vals |-> [i \in 1 .. Cardinality(DOMAIN desired_v.column_id_to_oid_map_) |-> NULL]]
  IN  /\ f.pc = "select"
      /\ \E junk \in Junks(racing.slot, f.version) :
            LET s == SelectRow(RaceSnapshot, racing.slot, pr, f.version, junk, FALSE)
                failed == MigrateFailed(tables_, racing.slot, f.want_slot, <<>>,
                                        <<Step("Select", racing.slot[1])>>)
            IN  racing' = [racing EXCEPT
                             !.frame[t] = [f EXCEPT !.pc = IF s.result THEN "delete" ELSE "finish",
                                                    !.pr = s.pr, !.result = s.result,
                                                    !.out_slot = failed.out_slot,
                                                    !.steps = failed.steps]]
      /\ UNCHANGED <<tables_, num_versions_, must_abort, last, hist, writes, scan, creating, alter>>

(* lines 107-110: result = tuple_v.data_table_->Delete(txn, curr_tuple) *)
RaceDelete(t) ==
  LET f == racing.frame[t]
      tuple_version == TupleVersionOf(tables_, racing.slot)
      conflict == ~Visible(tables_[tuple_version].data_table_, racing.slot[2])
      d == DataTable_Delete(tables_[tuple_version].data_table_, racing.slot[2], conflict)
  IN  /\ f.pc = "delete"
      /\ tables_' = [tables_ EXCEPT ![tuple_version].data_table_ = d.dt]
      /\ racing' = [racing EXCEPT
                      !.frame[t] = [f EXCEPT !.pc = IF InsertAfterDelete(d.result)
                                                    THEN "insert" ELSE "finish",
                                             !.result = d.result,
                                             !.steps = @ \o <<Step("Delete", tuple_version)>>]]
      /\ UNCHANGED <<num_versions_, must_abort, last, hist, writes, scan, creating, alter>>

(* lines 114-115: ApplyDelta, and the Insert into the desired version's    *)
(* data table when the caller passed an output slot                        *)
RaceInsert(t) ==
  LET f == racing.frame[t]
      a == RaceAlign(racing.slot, f.version)
      applied == ApplyDelta(DeltaAtApply(RaceDelta(f.version), a), f.pr)
      inserted == MigrateInsert(tables_, applied, f.version, f.want_slot)
  IN  /\ f.pc = "insert"
      /\ tables_' = inserted
      /\ racing' = [racing EXCEPT
                      !.frame[t] =
                         [f EXCEPT !.pc = "finish",
                                   !.out_slot = IF f.want_slot
                                                THEN TupleSlot(f.version,
                                                       Len(inserted[f.version].data_table_.slots))
                                                ELSE NoSlot,
                                   !.steps = IF f.want_slot
                                             THEN @ \o <<Step("Insert", f.version)>> ELSE @]]
      /\ UNCHANGED <<num_versions_, must_abort, last, hist, writes, scan, creating, alter>>

(* lines 122-127: if (!result) txn->SetMustAbort(); return result *)
RaceFinish(t) ==
  LET f == racing.frame[t]
  IN  /\ f.pc = "finish"
      /\ racing' = [racing EXCEPT
                      !.frame[t] = [f EXCEPT !.pc = "done",
                                             !.must_abort = AbortAfterUpdate(f.result)]]
      /\ UNCHANGED <<tables_, num_versions_, must_abort, last, hist, writes, scan, creating, alter>>

DoRaceSelect == \E t \in Racers : RaceSelect(t)

DoRaceDelete == \E t \in Racers : RaceDelete(t)

DoRaceInsert == \E t \in Racers : RaceInsert(t)

DoRaceFinish == \E t \in Racers : RaceFinish(t)

NextRace ==
  \/ RaceSetupSchema \/ RaceSetupInsert \/ RaceSetupDelete \/ Return
  \/ RaceBegin \/ DoRaceSelect \/ DoRaceDelete \/ DoRaceInsert \/ DoRaceFinish

SpecRace == Init /\ [][NextRace]_vars

(***************************************************************************)
(* Every operation of one transaction on a table whose schema grows: the   *)
(* reads, the scan, and the writes that succeed or fail                    *)
(***************************************************************************)
NextAbortFlag ==
  \/ DoUpdateSchemaAddColumn \/ DoInsertFull \/ DoSelect \/ DoUpdateAfterWrites \/ DoDelete
  \/ DoScanFromBegin \/ Return

SpecAbortFlag == Init /\ [][NextAbortFlag]_vars

(***************************************************************************)
(* Schema changes by callers that pass a schema the table cannot lay out,  *)
(* the version id of an earlier call, or a version id above the next one   *)
(***************************************************************************)
(* an attribute size outside the five cases of the switch *)
UnknownSizes == {3}

(* UpdateSchema with any version id: the TERRIER_ASSERT on the id is there *)
(* in a debug build only                                                   *)
UpdateSchemaAny(txn, schema, layout_version, asserts) ==
  LET r == CreateTable(tables_, num_versions_, schema, layout_version)
      call == [NoCall EXCEPT !.op = "UpdateSchema", !.txn = txn, !.version = layout_version,
                             !.schema = schema]
  IN  /\ IF asserts /\ ~(layout_version >= num_versions_)
         THEN /\ last' = [call EXCEPT !.status = "assert"]
              /\ UNCHANGED <<tables_, num_versions_>>
         ELSE /\ tables_' = r.tables
              /\ num_versions_' = r.num
              /\ last' = [call EXCEPT !.result = r.result,
                                      !.status = IF r.threw THEN "throw" ELSE "ok"]
      /\ UNCHANGED <<must_abort, hist, scan, writes>>

(* the version registered last: its index in tables_ *)
LatestRegistered == CHOOSE v \in RegisteredVersions : \A w \in RegisteredVersions : w <= v

DoUpdateSchemaUnknownSize ==
  /\ Idle
  /\ UNCHANGED schema_writers
  /\ Len(LatestSchema(tables_, num_versions_)) < MaxCols
  /\ \E txn \in Txns : \E size \in UnknownSizes : \E def \in AddDefaults :
        /\ Live(txn)
        /\ UpdateSchemaAny(txn, AddColumn(LatestSchema(tables_, num_versions_), size, def),
                           num_versions_, FALSE)

(* the call of the version registered last, made once more *)
DoUpdateSchemaAgain ==
  /\ Idle
  /\ UNCHANGED schema_writers
  /\ \E txn \in Txns : \E asserts \in BOOLEAN :
        /\ Live(txn)
        /\ UpdateSchemaAny(txn, tables_[LatestRegistered].schema_,
                           tables_[LatestRegistered].data_table_.layout_version_, asserts)

(* a version id above the number of versions *)
DoUpdateSchemaAhead ==
  /\ Idle
  /\ UNCHANGED schema_writers
  /\ \E txn \in Txns : \E schema \in AlteredSchemas(tables_, LatestSchema(tables_, num_versions_)) :
        \E layout_version \in num_versions_ + 1 .. MAX_NUM_VERSIONS - 1 :
           /\ Live(txn)
           /\ UpdateSchemaAny(txn, schema, layout_version, FALSE)

NextRegistry ==
  \/ DoUpdateSchema \/ DoUpdateSchemaUnknownSize \/ DoUpdateSchemaAgain
  \/ DoUpdateSchemaAhead \/ Return

SpecRegistry == Init /\ [][NextRegistry]_vars

(***************************************************************************)
(* Schema changes that add columns of every size the switch of CreateTable *)
(* knows, next to the alterations of the tests                             *)
(***************************************************************************)
KnownSizes == {VARLEN_COLUMN, 8, 4, 2, 1}

DoUpdateSchemaKnownSize ==
  /\ Idle
  /\ UNCHANGED schema_writers
  /\ Len(LatestSchema(tables_, num_versions_)) < MaxCols
  /\ \E txn \in Txns : \E size \in KnownSizes : \E def \in AddDefaults :
        /\ Live(txn)
        /\ UpdateSchema(txn, AddColumn(LatestSchema(tables_, num_versions_), size, def),
                        num_versions_)

NextLayout == DoUpdateSchema \/ DoUpdateSchemaKnownSize \/ Return

SpecLayout == Init /\ [][NextLayout]_vars

(***************************************************************************)
(* Callers that ask for the projection map of a list of columns of a       *)
(* version: any non-empty list of oids of the version without repeats, in  *)
(* any order                                                               *)
(***************************************************************************)
OidLists(oids) ==
  {l \in UNION {[1 .. n -> oids] : n \in 1 .. Cardinality(oids)} :
      \A i \in DOMAIN l : \A j \in DOMAIN l : l[i] = l[j] => i = j}

DoProjectionMapForOids ==
  /\ Idle
  /\ UNCHANGED schema_writers
  /\ \E v \in RegisteredVersions : \E col_oids \in OidLists(SchemaOids(tables_[v].schema_)) :
        last' = [NoCall EXCEPT !.op = "ProjectionMapForOids", !.version = v, !.result = TRUE,
                               !.col_oids = col_oids,
                               !.projection_map = ProjectionMapForOids(tables_, col_oids, v)]
  /\ UNCHANGED <<tables_, num_versions_, must_abort, hist, writes, scan>>

NextProjection == DoUpdateSchema \/ DoProjectionMapForOids \/ Return

SpecProjection == Init /\ [][NextProjection]_vars

(***************************************************************************)
(* The commands of one ALTER TABLE statement, executed one after the other *)
(* on the column list and the change map of the statement.  A column has a *)
(* name next to its oid; the column of an AddColumn command has the oid    *)
(* the catalog gave it, or none yet.  alter.cmds is the list of commands   *)
(* executed so far, each with the column list and the change map it found. *)
(***************************************************************************)
CmdNames == {"new_column", "col"}

NamedColumn(column, name) ==
  [oid |-> column.oid, size |-> column.size, def |-> column.def, name |-> name]

(* lines 16 and 39: push_back of the change on the list under the name *)
RecordChange(change_map, name, change) ==
  MapPut(change_map, name,
         Append(IF name \in DOMAIN change_map THEN change_map[name] ELSE <<>>, change))

(* cols->erase(itr) for the first column with the oid *)
RECURSIVE EraseFirst(_, _)
EraseFirst(cols, oid) ==
  IF cols = <<>> THEN <<>>
  ELSE IF Head(cols).oid = oid THEN Tail(cols)
  ELSE <<Head(cols)>> \o EraseFirst(Tail(cols), oid)

(* AlterTableCmdExecutor::AddColumn with its change map *)
AlterTableCmdExecutor_AddColumnCmd(cols, change_map, new_col) ==
  [cols |-> AlterTableCmdExecutor_AddColumn(cols, new_col),
   change_map |-> RecordChange(change_map, new_col.name, "Add"),
   result |-> TRUE]

(* a drop that records its change before it looks at the oid *)
AlterTableCmdExecutor_DropColumn_RecordFirst(cols, change_map, cmd) ==
  [cols |-> IF cmd.col_oid = INVALID_COLUMN_OID THEN cols ELSE EraseFirst(cols, cmd.col_oid),
   change_map |-> RecordChange(change_map, cmd.name, "DropNoCascade"),
   result |-> IF cmd.col_oid = INVALID_COLUMN_OID THEN cmd.if_exists ELSE TRUE]

(* AlterTableCmdExecutor::DropColumn *)
AlterTableCmdExecutor_DropColumn(cols, change_map, cmd) ==
  IF cmd.col_oid = INVALID_COLUMN_OID
  THEN [cols |-> cols, change_map |-> change_map, result |-> cmd.if_exists]
  ELSE [cols |-> EraseFirst(cols, cmd.col_oid),
        change_map |-> RecordChange(change_map, cmd.name, "DropNoCascade"),
        result |-> TRUE]

(* the statement starts on the columns of the latest schema *)
AlterCmdBegin ==
  /\ Idle
  /\ alter.pc = "idle"
  /\ alter' = [NoAlter EXCEPT
                 !.pc = "commands",
                 !.columns = [i \in DOMAIN LatestSchema(tables_, num_versions_) |->
                                NamedColumn(LatestSchema(tables_, num_versions_)[i], "col")]]
  /\ UNCHANGED <<tables_, num_versions_, must_abort, last, hist, writes, scan, creating, racing>>

AlterCmd(op, cmd, r) ==
  /\ alter' = [alter EXCEPT !.columns = r.cols, !.change_map = r.change_map,
                            !.cmds = Append(@, [op |-> op, cmd |-> cmd, result |-> r.result,
                                                cols |-> alter.columns,
                                                change_map |-> alter.change_map])]
  /\ last' = [NoCall EXCEPT !.op = op, !.result = r.result]
  /\ UNCHANGED <<tables_, num_versions_, must_abort, hist, writes, scan, creating, racing>>

(* the oid the catalog gives the next column: above every oid of the table *)
NextColOid ==
  LET used == SchemaOids(alter.columns) \cup {INVALID_COLUMN_OID}
                \cup UNION {SchemaOids(alter.cmds[k].cols) : k \in DOMAIN alter.cmds}
  IN  (CHOOSE o \in used : \A p \in used : p <= o) + 1

DoAddColumnCmd ==
  /\ Idle
  /\ alter.pc = "commands"
  /\ Len(alter.cmds) < MaxCmds
  /\ Len(alter.columns) < MaxCols
  /\ \E name \in CmdNames : \E oid \in {INVALID_COLUMN_OID, NextColOid} :
        LET new_col == NamedColumn(Column(oid, 4, DefaultInt), name)
        IN  AlterCmd("AddColumn", [col |-> new_col],
                     AlterTableCmdExecutor_AddColumnCmd(alter.columns, alter.change_map, new_col))

DoDropColumnCmd ==
  /\ Idle
  /\ alter.pc = "commands"
  /\ Len(alter.cmds) < MaxCmds
  /\ \E name \in CmdNames : \E if_exists \in BOOLEAN :
        \E col_oid \in SchemaOids(alter.columns) \cup {INVALID_COLUMN_OID} :
           LET cmd == [name |-> name, col_oid |-> col_oid, if_exists |-> if_exists]
           IN  AlterCmd("DropColumn", cmd,
                        AlterTableCmdExecutor_DropColumn(alter.columns, alter.change_map, cmd))

NextAlterCmd == AlterCmdBegin \/ DoAddColumnCmd \/ DoDropColumnCmd \/ Return

SpecAlterCmd == Init /\ [][NextAlterCmd]_vars

(***************************************************************************)
(* Properties                                                              *)
(***************************************************************************)

(* the tuple the callers inserted, as long as no Update or Delete changed it *)
Untouched(slot) ==
  slot \in DOMAIN hist /\ hist[slot].from = NoSlot /\ ~hist[slot].touched

(* the oids a projected row of a version carries *)
OidsOf(layout_version, pr) == DOMAIN ByOid(tables_, layout_version, pr)

(* the columns a version drops from the schema of the version before it *)
DroppedAt(d) ==
  IF d >= 1 /\ Registered(tables_, d) /\ Registered(tables_, d - 1)
  THEN SchemaOids(tables_[d - 1].schema_) \ SchemaOids(tables_[d].schema_)
  ELSE {}

(* C1: with no update or delete in between, a Select at version v of a      *)
(* tuple inserted at version v is visible and returns, for every projected  *)
(* column, the inserted value or the inserted null                          *)
C1_SelectIdentity ==
  (/\ last.op = "Select"
   /\ last.status = "ok"
   /\ Untouched(last.slot)
   /\ last.version = hist[last.slot].version)
     => /\ last.result
        /\ \A o \in OidsOf(last.version, last.pr) :
              ByOid(tables_, last.version, last.pr)[o] = hist[last.slot].row[o]

(* a Select of every column at a version after the first returned a row     *)
(* with a null and with a value                                             *)
C1_Witness ==
  /\ last.op = "Select"
  /\ last.result
  /\ Untouched(last.slot)
  /\ last.version = hist[last.slot].version
  /\ last.version >= 1
  /\ \E i \in DOMAIN last.pr.vals : last.pr.vals[i] = NULL
  /\ \E i \in DOMAIN last.pr.vals : last.pr.vals[i] # NULL

(* C9: a version d that drops column C has no entry for C in its oid-to-id  *)
(* map, and a Select at d of a tuple of an earlier version returns every    *)
(* projected column the tuple has with the inserted value                   *)
C9_DropColumn ==
  /\ \A d \in RegisteredVersions :
        \A c \in DroppedAt(d) : c \notin DOMAIN tables_[d].column_oid_to_id_map_
  /\ (/\ last.op = "Select"
      /\ last.status = "ok"
      /\ Untouched(last.slot)
      /\ hist[last.slot].version < last.version
      /\ DroppedAt(last.version) # {})
        => /\ last.result
           /\ OidsOf(last.version, last.pr) \cap DroppedAt(last.version) = {}
           /\ \A o \in OidsOf(last.version, last.pr) \cap DOMAIN hist[last.slot].row :
                 ByOid(tables_, last.version, last.pr)[o] = hist[last.slot].row[o]

(* a tuple that holds the dropped column was read at the version that drops *)
(* it, and a remaining column came back with its value                      *)
C9_Witness ==
  /\ last.op = "Select"
  /\ last.result
  /\ Untouched(last.slot)
  /\ hist[last.slot].version < last.version
  /\ DroppedAt(last.version) \cap DOMAIN hist[last.slot].row # {}
  /\ \E o \in OidsOf(last.version, last.pr) \cap DOMAIN hist[last.slot].row :
        ByOid(tables_, last.version, last.pr)[o] # NULL

(* what a Select at the tuple's own version returns, for every projection *)
OwnVersionReads(tbls, slot) ==
  LET v == TupleVersionOf(tbls, slot)
  IN  [col_oids \in Projections(tbls, v) |->
         SelectRow(tbls, slot, InitializerForProjectedRow(tbls, col_oids, v), v, 0, FALSE)]

(* C10: a successful UpdateSchema does not change what a Select at version  *)
(* v returns for a tuple inserted at version v                              *)
C10_OlderVersionsUnchanged ==
  [][(last'.op = "UpdateSchema" /\ last'.result)
       => \A slot \in AllSlots(tables_) :
             OwnVersionReads(tables_', slot) = OwnVersionReads(tables_, slot)]_vars

(* a version was registered while the table held a tuple *)
C10_Witness ==
  /\ last.op = "UpdateSchema"
  /\ last.result
  /\ \E slot \in AllSlots(tables_) : Visible(tables_[slot[1]].data_table_, slot[2])

(* the column stays in the schema from version t to version d *)
KeptBetween(o, t, d) == \A w \in t .. d : o \in SchemaOids(tables_[w].schema_)

(* C2: a Select at version d of a tuple inserted at an earlier version v    *)
(* reports a column that v lacks and that a version w, v < w <= d, added    *)
(* with the constant default D as D, not null, and a column of both         *)
(* versions with the inserted value                                         *)
C2_DefaultVisibility ==
  (/\ last.op = "Select"
   /\ last.status = "ok"
   /\ Untouched(last.slot)
   /\ hist[last.slot].version < last.version)
     => /\ last.result
        /\ \A o \in OidsOf(last.version, last.pr) :
              LET t == hist[last.slot].version
                  got == ByOid(tables_, last.version, last.pr)[o]
              IN  IF o \in DOMAIN hist[last.slot].row
                  THEN KeptBetween(o, t, last.version) => got = hist[last.slot].row[o]
                  ELSE ForwardDefault(tables_, o, t, last.version) # NULL
                         => got = ForwardDefault(tables_, o, t, last.version)

(* the call was an Update at a later version than the tuple's, with a delta *)
(* that touches a column the tuple's version lacks                          *)
Migrating(call) ==
  /\ call.op = "Update"
  /\ TupleVersionOf(tables_, call.slot) < call.version
  /\ \E i \in DOMAIN call.header :
        tables_[call.version].column_id_to_oid_map_[call.header[i]]
           \notin DOMAIN tables_[TupleVersionOf(tables_, call.slot)].column_oid_to_id_map_

(* a Select of every column of a version *)
ReadAll(slot, layout_version) ==
  SelectRow(tables_, slot,
            InitializerForProjectedRow(tables_, DOMAIN tables_[layout_version].column_oid_to_id_map_,
                                       layout_version),
            layout_version, 0, FALSE)

(* the live tuples of the data table of a version *)
LiveIn(v) ==
  {i \in 1 .. Len(tables_[v].data_table_.slots) : Visible(tables_[v].data_table_, i)}

(* C3: after a successful migrating Update at version d, (a) the slot       *)
(* handed out differs from the input slot and lies in d's data table, (b) a *)
(* Select of the old slot is not visible, and (c) a Select of the new slot  *)
(* at d returns the original row, forward defaults filled in, overwritten   *)
(* by the values of the delta                                               *)
C3_MigrationCorrect ==
  (/\ Migrating(last)
   /\ last.status = "ok"
   /\ last.result
   /\ last.want_slot)
     => /\ last.out_slot # last.slot
        /\ last.out_slot[1] = last.version
        /\ last.out_slot \in AllSlots(tables_)
        /\ ~ReadAll(last.slot, last.version).result
        /\ ReadAll(last.out_slot, last.version).result
        /\ ByOid(tables_, last.version, ReadAll(last.out_slot, last.version).pr)
              = hist[last.out_slot].row

(* C4: a migrating Update that returns true has inserted the tuple into the *)
(* data table of version d, with or without an output slot pointer: that    *)
(* table holds exactly one live copy                                        *)
C4_MigrationInserts ==
  (/\ Migrating(last)
   /\ last.status = "ok"
   /\ last.result)
     => Cardinality(LiveIn(last.version)) = 1

(* the live tuples of the versions 0 .. d *)
LiveUpTo(d) == UNION {{TupleSlot(v, i) : i \in LiveIn(v)} : v \in 0 .. d}

(* C5: with no writer at work, the Scan calls made from begin() until the   *)
(* iterator equals end(d) hand every live tuple of the versions 0 .. d to   *)
(* the caller exactly once, whatever the capacity of the batch              *)
C5_ScanComplete ==
  (scan.active /\ scan.status = "ok")
     => /\ \A i, j \in DOMAIN scan.delivered :
              scan.delivered[i] = scan.delivered[j] => i = j
        /\ scan.pos = end(tables_, scan.version)
              => Range(scan.delivered) = LiveUpTo(scan.version)

(* C6: with MAX_NUM_VERSIONS = 4 the versions 1, 2 and 3 all register: an   *)
(* UpdateSchema for one of them returns true and the version has its data   *)
(* table; only the call made with MAX_NUM_VERSIONS versions is refused      *)
C6_VersionsBelowCapRegister ==
  (last.op = "UpdateSchema" /\ last.status = "ok" /\ last.version \in 1 .. MAX_NUM_VERSIONS - 1)
     => (last.result /\ Registered(tables_, last.version))

(* C7: the counter always equals the number of fully registered versions,   *)
(* also after a refused registration, so that end() reads a registered      *)
(* version that has a data table                                            *)
C7_CounterCountsRegistered ==
  /\ num_versions_ = Cardinality(RegisteredVersions)
  /\ EndHasDataTable(tables_, num_versions_)

(* C8: whenever Update (same version, in place across versions, or          *)
(* migrating) or Delete returns false, the transaction is marked must-abort *)
C8_FailedWriteMustAbort ==
  (last.op \in {"Update", "Delete"} /\ last.status = "ok" /\ ~last.result)
     => must_abort[last.txn]

(* a migrating Update failed on the delete of the old tuple, and the         *)
(* transaction carries the mark                                              *)
C8_Witness ==
  /\ last.op = "Update"
  /\ last.status = "ok"
  /\ ~last.result
  /\ TupleVersionOf(tables_, last.slot) < last.version
  /\ \E i \in DOMAIN last.pr.header :
        tables_[last.version].column_id_to_oid_map_[last.pr.header[i]]
           \notin DOMAIN tables_[TupleVersionOf(tables_, last.slot)].column_oid_to_id_map_
  /\ must_abort[last.txn]

(* C11: a Scan at version d hands out the tuples in ascending order of      *)
(* their versions, never a tuple of a version above d, and a call that      *)
(* returns with room left in the batch has exhausted the table and leaves   *)
(* the iterator at end(d)                                                   *)
C11_ScanOrdered ==
  (scan.active /\ scan.status = "ok")
     => /\ \A i, j \in DOMAIN scan.delivered :
              i < j => scan.delivered[i][1] <= scan.delivered[j][1]
        /\ \A i \in DOMAIN scan.delivered : scan.delivered[i][1] <= scan.version
        /\ (scan.pos # begin /\ scan.num_tuples < scan.max_tuples)
              => scan.pos = end(tables_, scan.version)

(* C12: on return from Select, from Update (same version, in place, and     *)
(* migrating, successful or not) and from Scan, the column-id header of the *)
(* caller's buffer or delta is, position by position, the header on entry   *)
C12_HeaderRoundTrip ==
  (last.op \in {"Select", "Update", "Scan"} /\ last.status = "ok")
     => last.pr.header = last.header

(* a migrating Update with a delta of several columns failed, and the delta *)
(* carries its header                                                       *)
C12_Witness ==
  /\ Migrating(last)
  /\ last.status = "ok"
  /\ ~last.result
  /\ Len(last.header) >= 2
  /\ last.pr.header = last.header

(* what the registry holds for a version, the tuples of its data table left out *)
LayoutVersionOf(tbls, v) ==
  [tbls[v] EXCEPT !.data_table_ = [@ EXCEPT !.slots = <<>>]]

C15_InsertTargetsVersion ==
  [][last'.op = "Insert"
       => /\ last'.out_slot \notin AllSlots(tables_)
          /\ last'.out_slot \in AllSlots(tables_')
          /\ last'.out_slot[1] = last'.version
          /\ TupleVersionOf(tables_', last'.out_slot) = last'.version
          /\ last'.slot = last'.out_slot
          /\ \A v \in DOMAIN tables_ : v # last'.version => tables_'[v] = tables_[v]]_vars

(* a tuple was inserted at version 1 while version 2 was registered *)
C15_Witness ==
  /\ last.op = "Insert"
  /\ last.version = 1
  /\ Registered(tables_, 2)
  /\ TupleVersionOf(tables_, last.out_slot) = 1

(* C16: Delete acts on the data table of the slot's own tuple version: it   *)
(* succeeds exactly when the tuple is visible there and no writer is in     *)
(* conflict, it leaves every other data table alone, and after a successful *)
(* Delete a Select of the slot at any version from the tuple's on reports   *)
(* not visible                                                              *)
C16_DeleteOwnVersion ==
  [][last'.op = "Delete"
       => LET slot == last'.slot
              t == TupleVersionOf(tables_, slot)
          IN  /\ last'.result = (~last'.conflict /\ Visible(tables_[t].data_table_, slot[2]))
              /\ \A v \in DOMAIN tables_ : v # t => tables_'[v] = tables_[v]
              /\ last'.result
                   => \A d \in {v \in DOMAIN tables_' : Registered(tables_', v) /\ v >= t} :
                         ~SelectRow(tables_', slot,
                                    InitializerForProjectedRow(tables_',
                                       DOMAIN tables_'[d].column_oid_to_id_map_, d),
                                    d, 0, FALSE).result]_vars

(* a tuple of version 0 was deleted while later versions were registered *)
C16_Witness ==
  /\ last.op = "Delete"
  /\ last.result
  /\ TupleVersionOf(tables_, last.slot) = 0
  /\ Cardinality(RegisteredVersions) >= 2
  /\ ~Visible(tables_[0].data_table_, last.slot[2])

(* C17: a Select or an Update called at a version below the tuple version  *)
(* of the slot fails with version-skew, and no data table is read or       *)
(* written                                                                  *)
C17_VersionSkewRejected ==
  (last.op \in {"Select", "Update"} /\ TupleVersionOf(tables_, last.slot) > last.version)
     => (last.status # "ok" /\ ~last.result)

(* C18: a getter called with a version id that is not registered, also one  *)
(* below MAX_NUM_VERSIONS that never was, reports an error and hands out no *)
(* empty map or layout                                                      *)
C18_UnknownVersionFails ==
  (last.op \in Getters /\ ~Registered(tables_, last.version))
     => (last.status # "ok" /\ ~last.result)

(* C20: the default map of every registered version holds constant          *)
(* expressions only, and an UpdateSchema with a schema that has a default   *)
(* which is not a constant does not register it                             *)
C20_OnlyConstantDefaults ==
  /\ \A v \in RegisteredVersions :
        \A o \in DOMAIN tables_[v].default_value_map_ :
           IsConstant(tables_[v].default_value_map_[o])
  /\ (last.op = "UpdateSchema" /\ last.result)
        => \A i \in DOMAIN tables_[last.version].schema_ :
              tables_[last.version].schema_[i].def # NoDefault
                 => IsConstant(tables_[last.version].schema_[i].def)

(* the fields CreateTable gives the entry of a version *)
FullyInitialized(entry) ==
  /\ entry.data_table_.allocated
  /\ entry.layout_ # <<>>
  /\ entry.schema_ # <<>>
  /\ DOMAIN entry.column_oid_to_id_map_ = SchemaOids(entry.schema_)
  /\ Cardinality(DOMAIN entry.column_id_to_oid_map_) = Len(entry.schema_)
  /\ DOMAIN entry.default_value_map_
       = {entry.schema_[i].oid : i \in {j \in DOMAIN entry.schema_ : entry.schema_[j].def # NoDefault}}

(* C13: at every point of an UpdateSchema that runs beside readers, a       *)
(* reader that sees the version counter at N+1, or calls end(), finds the   *)
(* entry of version N fully initialized                                     *)
C13_RegistrationAtomic ==
  /\ (creating.pc \notin {"idle", "store"} /\ num_versions_ = creating.curr_num)
        => FullyInitialized(tables_[creating.curr_num - 1])
  /\ (last.op = "end" /\ creating.pc \notin {"idle", "store"}) => last.status = "ok"

(* C19: when several transactions alter the table at the same time from the *)
(* same schema, and the table has room for a version, exactly one of them   *)
(* succeeds, the table has gained exactly one version, and every other      *)
(* transaction still has the original columns                               *)
C19_ExactlyOneAlterSucceeds ==
  (alter.pc = "running" /\ alter.done = Alterers /\ alter.start < MAX_NUM_VERSIONS)
     => /\ Cardinality(alter.succeeded) = 1
        /\ Cardinality(RegisteredVersions) = alter.start + 1
        /\ \A a \in Alterers \ alter.succeeded : alter.cols[a] = alter.original

(* C21: an UpdateSchema with a schema that has a column of an unknown size  *)
(* fails, and the version counter and every entry of the registry are as    *)
(* they were before the call                                                *)
C21_UnknownSizeAddsNothing ==
  [][(last'.op = "UpdateSchema" /\ last'.status = "throw")
        => (num_versions_' = num_versions_ /\ tables_' = tables_)]_vars

(* C23: an UpdateSchema made a second time with the schema and the version  *)
(* id of a version that is registered leaves the version counter and every  *)
(* entry of the registry as they are                                        *)
C23_UpdateSchemaIdempotent ==
  [][(/\ last.op = "none"
      /\ last'.op = "UpdateSchema"
      /\ \E v \in RegisteredVersions :
            /\ tables_[v].data_table_.layout_version_ = last'.version
            /\ tables_[v].schema_ = last'.schema)
        => (num_versions_' = num_versions_ /\ tables_' = tables_)]_vars

(* C24: after a successful UpdateSchema with a version id above all the ids *)
(* in use, the next one or a larger one, the entry that operations naming   *)
(* the id read is registered, holds the layout of that call, and its data   *)
(* table hands out slots of tuple version id                                *)
C24_VersionIdNamesItsLayout ==
  [][(/\ last.op = "none"
      /\ last'.op = "UpdateSchema"
      /\ last'.result
      /\ \A v \in RegisteredVersions : tables_[v].data_table_.layout_version_ < last'.version)
        => /\ Registered(tables_', last'.version)
           /\ tables_'[last'.version].data_table_.layout_version_ = last'.version
           /\ tables_'[last'.version] # tables_[last'.version]]_vars

(* C22: in every registered version the oid-to-id map and the id-to-oid map *)
(* are inverse to each other, each has one entry for every column of the    *)
(* schema, and no column is mapped to a reserved column id                  *)
C22_ColumnMapBijection ==
  \A v \in RegisteredVersions :
     LET oid_to_id == tables_[v].column_oid_to_id_map_
         id_to_oid == tables_[v].column_id_to_oid_map_
     IN  /\ DOMAIN oid_to_id = SchemaOids(tables_[v].schema_)
         /\ Cardinality(DOMAIN oid_to_id) = Len(tables_[v].schema_)
         /\ Cardinality(DOMAIN id_to_oid) = Len(tables_[v].schema_)
         /\ \A o \in DOMAIN oid_to_id :
               oid_to_id[o] \in DOMAIN id_to_oid /\ id_to_oid[oid_to_id[o]] = o
         /\ \A p \in DOMAIN id_to_oid :
               /\ id_to_oid[p] \in DOMAIN oid_to_id /\ oid_to_id[id_to_oid[p]] = p
               /\ p >= NUM_RESERVED_COLUMNS

(* a version of three columns in two size classes was registered after a    *)
(* registration that threw had left an entry half built                     *)
C22_Witness ==
  /\ last.op = "UpdateSchema" /\ last.result
  /\ \E v \in RegisteredVersions :
        /\ Len(tables_[v].schema_) = MaxCols
        /\ Cardinality({tables_[v].schema_[i].size : i \in DOMAIN tables_[v].schema_}) > 1
        /\ \E w \in 0 .. v - 1 :
              ~tables_[w].data_table_.allocated /\ tables_[w].column_oid_to_id_map_ # EmptyMap

(* the column of the tuple version that holds the oid of position i of a    *)
(* header of the desired version; IGNORE_COLUMN_ID when it holds none       *)
ExpectedId(call, i) ==
  LET oid == tables_[call.version].column_id_to_oid_map_[call.header[i]]
  IN  IF oid \in DOMAIN tables_[call.tuple_version].column_oid_to_id_map_
      THEN tables_[call.tuple_version].column_oid_to_id_map_[oid]
      ELSE IGNORE_COLUMN_ID

(* C25: AlignHeaderToVersion of a header H of version d for a tuple version *)
(* t <= d puts at every position the column id of t for the oid, with the   *)
(* pair (that id, size in d) in the size map exactly when the sizes differ, *)
(* or IGNORE when t has no such oid; the missing list holds exactly the     *)
(* positions without oid in t, in ascending order, with their oids; the     *)
(* cache holds H                                                            *)
C25_HeaderTranslation ==
  last.op = "AlignHeaderToVersion"
     => LET H == last.header
            a == last.align
            t == tables_[last.tuple_version]
            d == tables_[last.version]
            absent == {i \in DOMAIN H : ExpectedId(last, i) = IGNORE_COLUMN_ID}
        IN  /\ a.cached_orig_header = H
            /\ DOMAIN a.header = DOMAIN H
            /\ \A i \in DOMAIN H : a.header[i] = ExpectedId(last, i)
            /\ \A i \in DOMAIN H \ absent :
                  IF AttrSize(t.layout_, a.header[i]) # AttrSize(d.layout_, H[i])
                  THEN /\ a.header[i] \in DOMAIN a.size_map
                       /\ a.size_map[a.header[i]] = AttrSize(d.layout_, H[i])
                  ELSE a.header[i] \notin DOMAIN a.size_map
            /\ DOMAIN a.size_map \subseteq {a.header[i] : i \in DOMAIN H \ absent}
            /\ Len(a.missing_col) = Cardinality(absent)
            /\ \A k \in DOMAIN a.missing_col :
                  /\ a.missing_col[k][1] + 1 \in absent
                  /\ a.missing_col[k][2] = d.column_id_to_oid_map_[H[a.missing_col[k][1] + 1]]
                  /\ \A j \in DOMAIN a.missing_col :
                        j < k => a.missing_col[j][1] < a.missing_col[k][1]

(* a header with a column of another size in t, a column of the same size   *)
(* and a column that t lacks                                                *)
C25_Witness ==
  /\ last.op = "AlignHeaderToVersion"
  /\ last.tuple_version < last.version
  /\ last.align.missing_col # <<>>
  /\ last.align.size_map # EmptyMap
  /\ \E i \in DOMAIN last.header :
        /\ last.align.header[i] # IGNORE_COLUMN_ID
        /\ last.align.header[i] \notin DOMAIN last.align.size_map

(* the versions after t up to d whose default map has the column *)
WithDefault(o, t, d) == {w \in t + 1 .. d : o \in DOMAIN tables_[w].default_value_map_}

(* C26: a column the tuple version lacks is filled from the first version   *)
(* after it, up to the desired version, whose default map has the column;  *)
(* if that default is the null constant the slot stays null, and no default *)
(* of a later version takes its place                                       *)
C26_NearestForwardDefault ==
  (/\ last.op = "Select"
   /\ last.status = "ok"
   /\ last.result
   /\ Untouched(last.slot)
   /\ hist[last.slot].version < last.version)
     => \A o \in OidsOf(last.version, last.pr) \ DOMAIN hist[last.slot].row :
           LET ws == WithDefault(o, hist[last.slot].version, last.version)
               first == CHOOSE w \in ws : \A x \in ws : w <= x
               got == ByOid(tables_, last.version, last.pr)[o]
           IN  ws # {}
                 => IF tables_[first].default_value_map_[o] = NULL
                    THEN got = NULL
                    ELSE got # NULL /\ got % 256 = tables_[first].default_value_map_[o] % 256
(* C27: a Select at a version after the tuple's, of a column the tuple     *)
(* version lacks and for which no version after it up to the desired one   *)
(* has a default, completes normally and leaves the column null            *)
C27_MissingWithoutDefaultIsNull ==
  (/\ last.op = "Select"
   /\ last.slot \in DOMAIN hist
   /\ hist[last.slot].version < last.version)
     => \A o \in OidsOf(last.version, last.pr) :
           (/\ o \notin DOMAIN tables_[hist[last.slot].version].column_oid_to_id_map_
            /\ WithDefault(o, hist[last.slot].version, last.version) = {})
              => /\ last.status = "ok"
                 /\ ByOid(tables_, last.version, last.pr)[o] = NULL
(* the bytes an attribute of a column has in a version *)
BytesIn(o, v) == AttrBytes(GetColumn(tables_[v].schema_, o).size)

VisibleSlots(tbls) ==
  {s \in AllSlots(tbls) : Visible(tbls[s[1]].data_table_, s[2])}

(* C29: a successful Update at a version from the tuple's on, whose delta  *)
(* has only columns of the tuple's version, writes in place: the output    *)
(* slot, if asked for, is the slot of the call, no data table gains or     *)
(* loses a tuple, the data tables of the other versions stay as they are,  *)
(* and a Select of the slot at the version of the Update returns the value *)
(* of the delta for every column of the delta, also for a column whose     *)
(* size differs between the two versions                                   *)
C29_NonMigratingUpdate ==
  [][(/\ last'.op = "Update"
      /\ last'.status = "ok"
      /\ last'.result
      /\ TupleVersionOf(tables_, last'.slot) <= last'.version
      /\ ~Migrating(last'))
       => LET slot == last'.slot
              t == TupleVersionOf(tables_, slot)
              d == last'.version
              delta == ByOid(tables_, d, [last'.pr EXCEPT !.header = last'.header])
              r == SelectRow(tables_', slot,
                             InitializerForProjectedRow(tables_', DOMAIN delta, d), d, 0, FALSE)
          IN  /\ last'.want_slot => last'.out_slot = slot
              /\ AllSlots(tables_') = AllSlots(tables_)
              /\ VisibleSlots(tables_') = VisibleSlots(tables_)
              /\ TupleVersionOf(tables_', slot) = t
              /\ \A v \in DOMAIN tables_ : v # t => tables_'[v] = tables_[v]
              /\ r.result
              /\ \A o \in DOMAIN delta : ByOid(tables_', d, r.pr)[o] = delta[o]]_vars
(* the positions of the calls of an operation among the steps of a call *)
StepsOf(call, op) == {i \in DOMAIN call.steps : call.steps[i].op = op}

(* the positions of the records of a type in the redo buffer of a call *)
RecordsOf(call, type) == {i \in DOMAIN call.redo_buffer : call.redo_buffer[i].type = type}

(* C30: a migrating Update that succeeds deletes the old slot from the     *)
(* data table of the tuple's version before it inserts into the data table *)
(* of the desired version, and the redo buffer of the transaction holds a  *)
(* record of the delete before a record of the insert                      *)
C30_MigrationOrdering ==
  (/\ Migrating(last)
   /\ last.status = "ok"
   /\ last.result)
     => /\ \E i \in StepsOf(last, "Delete") : \E j \in StepsOf(last, "Insert") :
              /\ i < j
              /\ last.steps[i].version = TupleVersionOf(tables_, last.slot)
              /\ last.steps[j].version = last.version
        /\ \E i \in RecordsOf(last, "DeleteRecord") : \E j \in RecordsOf(last, "RedoRecord") :
              /\ i < j
              /\ last.redo_buffer[i].slot = last.slot
              /\ last.redo_buffer[j].slot = last.out_slot
(* C31: a migrating Update whose Select finds the tuple not visible, or    *)
(* whose Delete fails, inserts nothing and leaves every data table as it   *)
(* was, puts the slot of the call into the output slot if one is asked     *)
(* for, returns false and marks the transaction must-abort                 *)
C31_FailedMigrationInsertsNothing ==
  [][(/\ Migrating(last')
      /\ last'.status = "ok"
      /\ \/ ~Visible(tables_[TupleVersionOf(tables_, last'.slot)].data_table_, last'.slot[2])
         \/ last'.conflict)
       => /\ AllSlots(tables_') = AllSlots(tables_)
          /\ tables_' = tables_
          /\ last'.want_slot => last'.out_slot = last'.slot
          /\ ~last'.result
          /\ must_abort'[last'.txn]]_vars

(* a migrating Update with an output slot failed on a tuple that an        *)
(* earlier Delete had removed                                              *)
C31_Witness ==
  /\ Migrating(last)
  /\ last.status = "ok"
  /\ ~last.result
  /\ ~last.conflict
  /\ last.want_slot
  /\ last.out_slot = last.slot
  /\ ~Visible(tables_[TupleVersionOf(tables_, last.slot)].data_table_, last.slot[2])
  /\ must_abort[last.txn]

(* a migrating Update failed in the Delete, after the Select had found the *)
(* tuple                                                                   *)
C31_WitnessDeleteFails ==
  /\ Migrating(last)
  /\ last.status = "ok"
  /\ ~last.result
  /\ last.conflict
  /\ StepsOf(last, "Delete") # {}
  /\ Visible(tables_[TupleVersionOf(tables_, last.slot)].data_table_, last.slot[2])
(* C32: no operation changes the tuple version of a slot that exists, and  *)
(* only two operations add a slot: Insert, at its own version, and a       *)
(* migrating Update, which adds one fresh slot at its desired version,     *)
(* strictly above the version of the slot it was called for; UpdateSchema, *)
(* Select, Scan, Delete and an Update that does not migrate add none       *)
C32_MigrationLazy ==
  [][LET fresh == AllSlots(tables_') \ AllSlots(tables_)
     IN  /\ \A s \in AllSlots(tables_) :
               /\ s \in AllSlots(tables_')
               /\ TupleVersionOf(tables_', s) = TupleVersionOf(tables_, s)
         /\ fresh # {}
               => /\ Cardinality(fresh) = 1
                  /\ \/ last'.op = "Insert"
                     \/ /\ Migrating(last')
                        /\ last'.version > TupleVersionOf(tables_, last'.slot)
                        /\ ~Visible(tables_'[TupleVersionOf(tables_, last'.slot)].data_table_,
                                    last'.slot[2])
                  /\ \A s \in fresh : TupleVersionOf(tables_', s) = last'.version]_vars

(* a migrating Update moved a tuple of version 0 to a fresh slot of a later *)
(* version while a further version was registered                          *)
C32_Witness ==
  /\ Migrating(last)
  /\ last.result
  /\ last.out_slot # NoSlot
  /\ last.out_slot # last.slot
  /\ TupleVersionOf(tables_, last.slot) = 0
  /\ TupleVersionOf(tables_, last.out_slot) = last.version
  /\ last.version >= 1
  /\ Visible(tables_[last.version].data_table_, last.out_slot[2])
(* what Select returns for a slot under the header of the scan buffer *)
SelectLike(slot, junk) ==
  SelectRow(tables_, slot, [header |-> scan.header, vals |-> [i \in DOMAIN scan.header |-> NULL]],
            scan.version, junk, FALSE)

(* C33: every row a Scan at a version leaves in the batch buffer holds, in *)
(* every column, the value or the null that a Select of the row's slot at  *)
(* that version returns, also in the columns the tuple version of the row  *)
(* lacks and the default filler fills                                      *)
C33_ScanAgreesWithSelect ==
  (scan.active /\ scan.status = "ok")
     => \A k \in 1 .. scan.num_tuples :
           k \in DOMAIN scan.rows
             => \E junk \in {0, 1} :
                   /\ SelectLike(scan.rows[k].slot, junk).result
                   /\ SelectLike(scan.rows[k].slot, junk).pr.vals = scan.rows[k].vals

(***************************************************************************)
(* C34: when two transactions run a migrating Update on the same slot at   *)
(* the same time, at most one of the calls returns true, at most one new   *)
(* tuple is inserted, into the data table of the version the successful    *)
(* call asked for, and every transaction whose call returned false is      *)
(* marked must-abort.                                                      *)
(***************************************************************************)
C34_ConcurrentMigrations ==
  racing.pc = "running" =>
    LET returned == {t \in Racers : racing.frame[t].pc = "done"}
        fresh == AllSlots(tables_) \ racing.before
    IN  /\ Cardinality({t \in returned : racing.frame[t].result}) <= 1
        /\ Cardinality(fresh) <= 1
        /\ \A s \in fresh : \E t \in Racers :
              /\ racing.frame[t].result
              /\ racing.frame[t].out_slot = s
              /\ s[1] = racing.frame[t].version
        /\ \A t \in returned : ~racing.frame[t].result => racing.frame[t].must_abort

(* both calls returned: one migrated the tuple, the other found it visible *)
(* and lost at the Delete                                                  *)
C34_Witness ==
  /\ racing.pc = "running"
  /\ \A t \in Racers : racing.frame[t].pc = "done" /\ racing.frame[t].want_slot
  /\ \E t \in Racers : \E u \in Racers :
        /\ racing.frame[t].result
        /\ racing.frame[t].out_slot \in AllSlots(tables_) \ racing.before
        /\ ~racing.frame[u].result
        /\ racing.frame[u].must_abort
        /\ Len(racing.frame[u].steps) = 2

(***************************************************************************)
(* C35: the must-abort flag is set only when a write fails: Select (also   *)
(* one that reports the tuple not visible), Scan, Insert, UpdateSchema and *)
(* every Update or Delete that returns true leave the must-abort flag of   *)
(* the transaction as it was.                                              *)
(***************************************************************************)
C35_MustAbortOnlyOnWriteFailure ==
  [][(/\ last.op = "none"
      /\ \/ last'.op \in {"Select", "Scan", "Insert", "UpdateSchema"}
         \/ last'.op \in {"Update", "Delete"} /\ last'.result)
     => must_abort' = must_abort]_vars

(* a Select reports not visible a tuple that a Delete of the transaction   *)
(* removed with success, and the transaction is not marked                 *)
C35_Witness ==
  /\ last.op = "Select"
  /\ last.status = "ok"
  /\ ~last.result
  /\ writes >= 1
  /\ ~must_abort[last.txn]

(* the size classes in the order of the layout *)
ClassOrder == <<VARLEN_COLUMN, 8, 4, 2, 1>>

ClassRank(size) == CHOOSE k \in DOMAIN ClassOrder : ClassOrder[k] = size

(* the physical id of column i of a schema: after the reserved columns and *)
(* the columns of the classes before its own, in the order of the schema   *)
(* among the columns of its class                                          *)
PhysicalId(schema, i) ==
  NUM_RESERVED_COLUMNS
    + Cardinality({j \in DOMAIN schema : ClassRank(schema[j].size) < ClassRank(schema[i].size)})
    + Cardinality({j \in 1 .. i - 1 : schema[j].size = schema[i].size})

(***************************************************************************)
(* C36: when a layout version is built, the columns go to the size classes *)
(* varlen, 8, 4, 2, 1 in that order after the reserved columns; within a   *)
(* class they get consecutive physical ids in the order of the schema, so  *)
(* the ids are exactly NUM_RESERVED_COLUMNS .. NUM_RESERVED_COLUMNS +      *)
(* (number of columns) - 1 without gap or repeat; a column with a default  *)
(* expression has it recorded under its oid.                               *)
(***************************************************************************)
C36_PhysicalIdAssignment ==
  \A v \in RegisteredVersions :
     LET schema == tables_[v].schema_
         oid_to_id == tables_[v].column_oid_to_id_map_
     IN  /\ \A i \in DOMAIN schema :
               /\ schema[i].oid \in DOMAIN oid_to_id
               /\ oid_to_id[schema[i].oid] = PhysicalId(schema, i)
               /\ schema[i].def # NoDefault
                     => /\ schema[i].oid \in DOMAIN tables_[v].default_value_map_
                        /\ tables_[v].default_value_map_[schema[i].oid] = schema[i].def
         /\ DOMAIN tables_[v].column_id_to_oid_map_
              = NUM_RESERVED_COLUMNS .. NUM_RESERVED_COLUMNS + Len(schema) - 1
         /\ Cardinality({oid_to_id[o] : o \in DOMAIN oid_to_id}) = Len(schema)

(* a version with a 2-byte column that comes before a 4-byte column in the *)
(* schema, a later column with a default, and two columns of one class     *)
C36_Witness ==
  /\ last.op = "UpdateSchema" /\ last.result
  /\ \E v \in RegisteredVersions :
        LET schema == tables_[v].schema_
        IN  /\ \E i \in DOMAIN schema : \E j \in DOMAIN schema :
                  i < j /\ schema[i].size = 2 /\ schema[j].size = 4
            /\ \E i \in DOMAIN schema : \E j \in DOMAIN schema :
                  i < j /\ schema[i].size = schema[j].size /\ schema[j].def = DefaultInt

(***************************************************************************)
(* C37: ProjectionMapForOids(oids, v), for a non-empty list of oids of     *)
(* version v without repeats, returns a map whose keys are exactly the     *)
(* oids of the list and whose values are exactly the positions 0 .. n - 1, *)
(* given in the ascending order of the physical column ids of the oids in  *)
(* v, whatever the order of the list.                                      *)
(***************************************************************************)
C37_ProjectionMap ==
  last.op = "ProjectionMapForOids"
     => LET pm == last.projection_map
            id == tables_[last.version].column_oid_to_id_map_
            oids == Range(last.col_oids)
        IN  /\ DOMAIN pm = oids
            /\ {pm[o] : o \in oids} = 0 .. Len(last.col_oids) - 1
            /\ \A o1 \in oids : \A o2 \in oids : id[o1] < id[o2] => pm[o1] < pm[o2]

(* a list of every column of a version of three columns whose first oid    *)
(* has the highest column id and therefore the last position               *)
C37_Witness ==
  /\ last.op = "ProjectionMapForOids"
  /\ Len(last.col_oids) = MaxCols
  /\ last.projection_map[last.col_oids[1]] = MaxCols - 1
  /\ last.projection_map[last.col_oids[MaxCols]] = 0

(* the column list and the change map that command k of the statement left *)
AfterCmd(k) ==
  IF k < Len(alter.cmds)
  THEN [cols |-> alter.cmds[k + 1].cols, change_map |-> alter.cmds[k + 1].change_map]
  ELSE [cols |-> alter.columns, change_map |-> alter.change_map]

(* the change map with one more change under the name *)
ChangeAdded(before, after, name, change) ==
  /\ DOMAIN after = DOMAIN before \cup {name}
  /\ \A n \in DOMAIN before \ {name} : after[n] = before[n]
  /\ after[name] = (IF name \in DOMAIN before THEN before[name] ELSE <<>>) \o <<change>>

(***************************************************************************)
(* C38: AddColumn appends the new column to the column list and records an *)
(* Add change under its name; DropColumn with a valid oid removes the      *)
(* column with that oid and records a DropNoCascade change, so AddColumn   *)
(* followed by DropColumn of the added column gives the original column    *)
(* list back; DropColumn with INVALID_COLUMN_OID changes neither the       *)
(* column list nor the change map and returns the if-exists flag of the    *)
(* command.                                                                *)
(***************************************************************************)
C38_AlterColumnCommands ==
  \A k \in DOMAIN alter.cmds :
     LET c == alter.cmds[k]
         after == AfterCmd(k)
     IN  /\ c.op = "AddColumn"
            => /\ after.cols = c.cols \o <<c.cmd.col>>
               /\ ChangeAdded(c.change_map, after.change_map, c.cmd.col.name, "Add")
               /\ c.result
         /\ (c.op = "DropColumn" /\ c.cmd.col_oid # INVALID_COLUMN_OID)
            => /\ after.cols = SelectSeq(c.cols, LAMBDA col : col.oid # c.cmd.col_oid)
               /\ ChangeAdded(c.change_map, after.change_map, c.cmd.name, "DropNoCascade")
               /\ c.result
         /\ (/\ c.op = "DropColumn" /\ c.cmd.col_oid # INVALID_COLUMN_OID
             /\ k > 1 /\ alter.cmds[k - 1].op = "AddColumn"
             /\ alter.cmds[k - 1].cmd.col.oid = c.cmd.col_oid)
            => after.cols = alter.cmds[k - 1].cols
         /\ (c.op = "DropColumn" /\ c.cmd.col_oid = INVALID_COLUMN_OID)
            => /\ after.cols = c.cols
               /\ after.change_map = c.change_map
               /\ c.result = c.cmd.if_exists

(* a statement that added a column, dropped it again by its oid, and then  *)
(* ran a drop without oid and without IF EXISTS, which returned false      *)
C38_Witness ==
  /\ Len(alter.cmds) = 3
  /\ alter.cmds[1].op = "AddColumn"
  /\ alter.cmds[2].op = "DropColumn"
  /\ alter.cmds[2].cmd.col_oid = alter.cmds[1].cmd.col.oid
  /\ alter.cmds[2].cmd.col_oid # INVALID_COLUMN_OID
  /\ alter.cmds[3].op = "DropColumn"
  /\ alter.cmds[3].cmd.col_oid = INVALID_COLUMN_OID
  /\ ~alter.cmds[3].result
  /\ alter.columns = alter.cmds[1].cols
  /\ alter.change_map # EmptyMap

====
